---- MODULE Spec2Model ----
(***************************************************************************)
(* A state-machine model of the entity-dictionary datastore orchestration  *)
(* layer of chatbot_ner (datastore/datastore.py, class DataStore).         *)
(*                                                                         *)
(* The DataStore object, its configuration and its public operations are   *)
(* translated from datastore.py.  The engine primitives it delegates to    *)
(* (the elastic_search package: connect, create, populate, query) are not  *)
(* part of the sources at hand; they are modelled as a small search        *)
(* cluster: a set of existing indices, the documents of each index and a   *)
(* live-index pointer.                                                     *)
(***************************************************************************)
EXTENDS Naturals, Integers, Sequences, FiniteSets, TLC

VARIABLES
    CHATBOT_NER_DATASTORE,  \* the configuration read from the environment
    pc,                     \* "new" | "ready" | "failed": life of the instance
    engine,                 \* DataStore._engine
    connection_settings,    \* DataStore._connection_settings
    store_name,             \* DataStore._store_name
    client_or_connection,   \* DataStore._client_or_connection
    indices,                \* cluster: names of the indices that exist
    docs,                   \* cluster: dictionary documents of each index
    crf_docs,               \* cluster: CRF training documents of each index
    live_index,             \* cluster: what the live-index pointer resolves to
    last,                   \* the last call: operation, arguments, outcome
    bucket,                 \* object storage: the keys of the bucket
    local_dirs,             \* local file system: the directories
    local_files,            \* local file system: the files
    run_ner,                \* ner_v1.chatbot.tag_message.run_ner: what it is
    in_flight,              \* the operation that is between two of its steps
    now,                    \* time.time(), in seconds
    http_server,            \* tornado HTTPServer: whether it accepts connections
    io_loop                 \* tornado IOLoop: running, callbacks and timeouts

config_vars   == <<CHATBOT_NER_DATASTORE>>
instance_vars == <<pc, engine, connection_settings, store_name, client_or_connection>>
cluster_vars  == <<indices, docs, crf_docs, live_index>>
\* what the entity-data download works on, outside the datastore
sync_vars     == <<bucket, local_dirs, local_files, run_ner>>
\* an operation of the store in flight, and the HTTP server process
process_vars  == <<in_flight, now, http_server, io_loop>>
vars == <<CHATBOT_NER_DATASTORE, pc, engine, connection_settings, store_name,
          client_or_connection, indices, docs, crf_docs, live_index, last,
          bucket, local_dirs, local_files, run_ner, in_flight, now, http_server,
          io_loop>>

(***************************************************************************)
(* Bounds of the model.                                                    *)
(***************************************************************************)
\* the largest number of dictionary documents the cluster holds
MaxDocs == 2
\* the largest number of CRF training documents the cluster holds
MaxCrfDocs == 1

(***************************************************************************)
(* Python values.                                                          *)
(***************************************************************************)
\* Python's None
None == "None"
\* an empty dict
EmptyDict == [k \in {} |-> None]
\* dict.get(key, default)
DictGet(d, key, default) == IF key \in DOMAIN d THEN d[key] ELSE default

(***************************************************************************)
(* datastore/constants.py, as imported by datastore.py.                    *)
(***************************************************************************)
ELASTICSEARCH == "elasticsearch"
ELASTICSEARCH_INDEX_NAME == "name"
ELASTICSEARCH_DOC_TYPE == "doc_type"
ELASTICSEARCH_CRF_DATA_INDEX_NAME == "elasticsearch_crf_data_index_name"
ELASTICSEARCH_CRF_DATA_DOC_TYPE == "elasticsearch_crf_data_doc_type"

(***************************************************************************)
(* Exceptions.  An outcome carries the exception class and, where the      *)
(* code gives one, the setting its message names.                          *)
(***************************************************************************)
NoExc == [type |-> "none", msg |-> ""]
Exc(t, m) == [type |-> t, msg |-> m]
DataStoreSettingsImproperlyConfiguredException ==
    "DataStoreSettingsImproperlyConfiguredException"
EngineNotImplementedException == "EngineNotImplementedException"
EngineConnectionException == "EngineConnectionException"
IndexNotFoundException == "IndexNotFoundException"
NonESEngineTransferException == "NonESEngineTransferException"
\* an exception of the elasticsearch-py library, propagated unmodified
TransportError == "TransportError"
\* what get_current_live_index raises when the pointer cannot be resolved
LiveIndexError == "LiveIndexResolutionError"

(***************************************************************************)
(* The configurations the environment can hold.                            *)
(***************************************************************************)
\* the names used by the deployments of the model
EntitiesIndex == "entities"
RebuildIndex == "entities_v2"
CrfIndex == "entities_crf"
DictIndexNames == {EntitiesIndex, RebuildIndex}
AllIndexNames == DictIndexNames \cup {CrfIndex}
ALL_INDICES == "_all"

SettingValue ==
    [k \in {ELASTICSEARCH_INDEX_NAME, ELASTICSEARCH_DOC_TYPE,
            ELASTICSEARCH_CRF_DATA_INDEX_NAME, ELASTICSEARCH_CRF_DATA_DOC_TYPE} |->
        CASE k = ELASTICSEARCH_INDEX_NAME -> EntitiesIndex
          [] k = ELASTICSEARCH_DOC_TYPE -> "data_dictionary"
          [] k = ELASTICSEARCH_CRF_DATA_INDEX_NAME -> CrfIndex
          [] k = ELASTICSEARCH_CRF_DATA_DOC_TYPE -> "training_dictionary"]

\* the settings dicts of the search engine: any subset of the four keys
EsSettings == {[k \in K |-> SettingValue[k]] : K \in SUBSET DOMAIN SettingValue}

\* a configuration: the ENGINE entry and the per-engine settings entries
EngineNames == {ELASTICSEARCH, "mysql", "redis"}
Configs ==
    {[engine |-> e, engines |-> [n \in {ELASTICSEARCH} |-> s]] :
        e \in EngineNames \cup {None}, s \in EsSettings}
    \cup {[engine |-> e, engines |-> [n \in {m} |-> EmptyDict]] :
        e \in EngineNames \cup {None}, m \in EngineNames \ {ELASTICSEARCH}}
    \cup {[engine |-> e, engines |-> EmptyDict] : e \in EngineNames \cup {None}}

\* CHATBOT_NER_DATASTORE.get(ENGINE)
ConfiguredEngine(cfg) == cfg.engine
\* CHATBOT_NER_DATASTORE.get(engine) is not None
HasSettings(cfg, e) == e \in DOMAIN cfg.engines

(***************************************************************************)
(* The record of the last call.                                            *)
(***************************************************************************)
\* a call to a primitive of the engine package: the primitive, the index
\* name it is given and the status the cluster answers with
Call(fn, index, status) == [fn |-> fn, index |-> index, status |-> status]
\* a call of a query primitive, with the request_timeout it is given
TimedCall(fn, index, status, request_timeout) ==
    [fn |-> fn, index |-> index, status |-> status, request_timeout |-> request_timeout]
NoArgs == [entity |-> None]
\* **kwargs of a call: none given
NoKwargs == EmptyDict
Outcome(op, args, exc, result, calls) ==
    [op |-> op, args |-> args, exc |-> exc, result |-> result, calls |-> calls]

(***************************************************************************)
(* The engine package (elastic_search.connect / create), as a cluster.     *)
(* A name addresses the index of that name; "_all" addresses every index.  *)
(* The status codes are those of the cluster's REST interface; a status of *)
(* 400 or more raises TransportError unless the caller lists it in         *)
(* `ignore`.                                                               *)
(***************************************************************************)
Addressed(ind, name) == IF name = ALL_INDICES THEN ind ELSE {name} \cap ind

\* elastic_search.create.create_entity_index / create_crf_index
EsCreateIndex(ind, name, ignore) ==
    LET status == IF name = ALL_INDICES \/ name \in ind THEN 400 ELSE 200
    IN  [status  |-> status,
         raised  |-> status >= 400 /\ status \notin ignore,
         indices |-> IF status = 200 THEN ind \cup {name} ELSE ind]

\* elastic_search.create.delete_index
EsDeleteIndex(ind, name, ignore) ==
    LET status == IF name = ALL_INDICES \/ name \in ind THEN 200 ELSE 404
    IN  [status  |-> status,
         raised  |-> status >= 400 /\ status \notin ignore,
         indices |-> ind \ Addressed(ind, name)]

\* elastic_search.create.exists
EsExists(ind, name) == Addressed(ind, name) # {}

\* the documents left once only the indices of `ind` exist
DocsWithin(d, ind) == [i \in DOMAIN d |-> IF i \in ind THEN d[i] ELSE {}]
CrfDocsWithin(cd, ind) == IF CrfIndex \in ind THEN cd ELSE {}

\* no bucket and no local tree: the download is not part of the run
NothingToSync ==
    bucket = {} /\ local_dirs = {} /\ local_files = {} /\ run_ner = "coroutine"

\* no operation of the store is between two of its calls
NothingInFlight == [op |-> "none"]
\* the HTTP server before main() runs: nothing listens, the loop is not
\* started and holds no callback and no timeout
ServerNotStarted ==
    /\ now = 0
    /\ http_server = [state |-> "none", stopped_at |-> 0]
    /\ io_loop = [state |-> "none", callbacks |-> <<>>, timeouts |-> <<>>,
                  stopped_at |-> 0]

(***************************************************************************)
(* DataStore.__init__ and DataStore._connect.                              *)
(***************************************************************************)
\* __init__, first check: the ENGINE entry
CheckEngineConfigured(cfg) ==
    IF ConfiguredEngine(cfg) = None
    THEN Exc(DataStoreSettingsImproperlyConfiguredException, "")
    ELSE NoExc

\* a slip: the wrong exception class for missing settings
CheckEngineSettingsWrongClass(cfg) ==
    IF ~HasSettings(cfg, ConfiguredEngine(cfg))
    THEN Exc(EngineConnectionException, "")
    ELSE NoExc

\* __init__, second check: the settings entry of the configured engine
CheckEngineSettings(cfg) ==
    IF ~HasSettings(cfg, ConfiguredEngine(cfg))
    THEN Exc(DataStoreSettingsImproperlyConfiguredException, "")
    ELSE NoExc

\* a slip: an unknown engine reported as a connection failure
ConnectElseBranchAsConnectionFailure(ok) ==
    Exc(EngineConnectionException, "")

\* _connect, the else branch: the engine has no implementation
ConnectElseBranch(ok) ==
    Exc(EngineNotImplementedException, "")

\* a slip: _connect asks the driver a second time when it got no handle
ConnectRetrying(eng, settings, old_store, ok) ==
    IF eng = ELASTICSEARCH
    THEN [store_name |-> DictGet(settings, ELASTICSEARCH_INDEX_NAME, ALL_INDICES),
          client     |-> IF ok THEN "es_client" ELSE None,
          exc        |-> IF ok THEN NoExc ELSE Exc(EngineConnectionException, eng),
          calls      |-> IF ok THEN <<Call("connect", None, 200)>>
                         ELSE <<Call("connect", None, 503), Call("connect", None, 503)>>]
    ELSE [store_name |-> old_store,
          client     |-> None,
          exc        |-> Exc(EngineNotImplementedException, ""),
          calls      |-> <<>>]

\* _connect: the store name, the handle (ok: the driver returned one), the
\* exception raised and the calls made
Connect(eng, settings, old_store, ok) ==
    IF eng = ELASTICSEARCH
    THEN [store_name |-> DictGet(settings, ELASTICSEARCH_INDEX_NAME, ALL_INDICES),
          client     |-> IF ok THEN "es_client" ELSE None,
          exc        |-> IF ok THEN NoExc ELSE Exc(EngineConnectionException, eng),
          calls      |-> <<Call("connect", None, IF ok THEN 200 ELSE 503)>>]
    ELSE [store_name |-> old_store,
          client     |-> None,
          exc        |-> ConnectElseBranch(ok),
          calls      |-> <<>>]

\* whether the driver returns a handle, when it is asked for one
DriverAnswers == IF client_or_connection = None THEN BOOLEAN ELSE {TRUE}

\* a slip: the operations connect without looking at the handle they hold
EnsureConnectedAlways(ok) ==
    [store_name |-> DictGet(connection_settings, ELASTICSEARCH_INDEX_NAME, ALL_INDICES),
     client     |-> "es_client",
     exc        |-> NoExc,
     calls      |-> <<Call("connect", None, 200)>>]

\* a slip: the index the live pointer names is kept as the store name
EnsureConnectedKeepsLiveIndex(ok) ==
    [store_name |-> IF live_index # None THEN live_index ELSE store_name,
     client |-> client_or_connection, exc |-> NoExc, calls |-> <<>>]

\* `if self._client_or_connection is None: self._connect()`.  The attribute
\* is there to read once __init__ passed its two checks (lines 43-51),
\* whatever _connect did after them; on an instance whose __init__ raised
\* before, reading it is an AttributeError
EnsureConnected(ok) ==
    IF engine = None \/ ~HasSettings(CHATBOT_NER_DATASTORE, engine)
    THEN [store_name |-> store_name, client |-> client_or_connection,
          exc |-> Exc("AttributeError", "_client_or_connection"), calls |-> <<>>]
    ELSE IF client_or_connection = None
    THEN Connect(engine, connection_settings, store_name, ok)
    ELSE [store_name |-> store_name, client |-> client_or_connection,
          exc |-> NoExc, calls |-> <<>>]

\* DataStore(): the constructor.  When it raises, the caller constructs anew
\* or goes on with the instance __init__ was given (pc = "failed"), which
\* has the attributes assigned before the exception
DataStore_init ==
    /\ pc \in {"new", "failed"}
    /\ \E ok \in BOOLEAN :
        LET cfg == CHATBOT_NER_DATASTORE
            e1  == CheckEngineConfigured(cfg)
            e2  == CheckEngineSettings(cfg)
            settings == cfg.engines[ConfiguredEngine(cfg)]
            c   == Connect(ConfiguredEngine(cfg), settings, None, ok)
        IN  IF e1.type # "none"
            THEN /\ pc' = "failed"
                 /\ engine' = ConfiguredEngine(cfg)
                 /\ last' = Outcome("__init__", NoArgs, e1, None, <<>>)
                 /\ UNCHANGED <<connection_settings, store_name, client_or_connection>>
            ELSE IF e2.type # "none"
            THEN /\ pc' = "failed"
                 /\ engine' = ConfiguredEngine(cfg)
                 /\ last' = Outcome("__init__", NoArgs, e2, None, <<>>)
                 /\ UNCHANGED <<connection_settings, store_name, client_or_connection>>
            ELSE /\ pc' = IF c.exc.type = "none" THEN "ready" ELSE "failed"
                 /\ engine' = ConfiguredEngine(cfg)
                 /\ connection_settings' = settings
                 /\ store_name' = c.store_name
                 /\ client_or_connection' = c.client
                 /\ last' = Outcome("__init__", NoArgs, c.exc, None, c.calls)
    /\ UNCHANGED <<CHATBOT_NER_DATASTORE, indices, docs, crf_docs, live_index>>
    /\ UNCHANGED sync_vars
    /\ UNCHANGED process_vars

(***************************************************************************)
(* The shape shared by the public operations: ensure the connection, then  *)
(* run the body.  A body yields the exception it raises, its result, the   *)
(* calls it made and the cluster it leaves.                                *)
(***************************************************************************)
Step(exc, result, calls, ind, d, cd) ==
    [exc |-> exc, result |-> result, calls |-> calls,
     indices |-> ind, docs |-> d, crf_docs |-> cd]
Same(exc, result, calls) == Step(exc, result, calls, indices, docs, crf_docs)

\* an operation runs on the instance DataStore() returned and on the one a
\* failed __init__ left; the instance is ready once it holds a handle
Invoke(op, args, c, b) ==
    /\ pc # "new"
    /\ pc' = IF c.client # None THEN "ready" ELSE pc
    /\ store_name' = c.store_name
    /\ client_or_connection' = c.client
    /\ IF c.exc.type # "none"
       THEN /\ last' = Outcome(op, args, c.exc, None, c.calls)
            /\ UNCHANGED <<indices, docs, crf_docs>>
       ELSE /\ last' = Outcome(op, args, b.exc, b.result, c.calls \o b.calls)
            /\ indices' = b.indices
            /\ docs' = b.docs
            /\ crf_docs' = b.crf_docs
    /\ UNCHANGED <<CHATBOT_NER_DATASTORE, engine, connection_settings, live_index>>
    /\ UNCHANGED sync_vars
    /\ UNCHANGED process_vars

\* `self._connection_settings.get('request_timeout', 20)`
REQUEST_TIMEOUT == "request_timeout"
DefaultRequestTimeout == 20
ConfiguredRequestTimeout(settings) ==
    DictGet(settings, REQUEST_TIMEOUT, DefaultRequestTimeout)

\* `f(..., request_timeout=request_timeout, **kwargs)`: a keyword given
\* twice is a TypeError raised before f is entered
DuplicateKeyword(kwargs) ==
    IF REQUEST_TIMEOUT \in DOMAIN kwargs
    THEN Exc("TypeError", REQUEST_TIMEOUT)
    ELSE NoExc

\* a slip: the dictionary check asks for the CRF doc-type as well
check_doc_type_for_elasticsearch_and_crf(settings) ==
    IF ELASTICSEARCH_DOC_TYPE \notin DOMAIN settings
    THEN Exc(DataStoreSettingsImproperlyConfiguredException, "ES_DOC_TYPE")
    ELSE IF ELASTICSEARCH_CRF_DATA_DOC_TYPE \notin DOMAIN settings
    THEN Exc(DataStoreSettingsImproperlyConfiguredException, "ES_TRAINING_DATA_DOC_TYPE")
    ELSE NoExc

\* _check_doc_type_for_elasticsearch
check_doc_type_for_elasticsearch(settings) ==
    IF ELASTICSEARCH_DOC_TYPE \notin DOMAIN settings
    THEN Exc(DataStoreSettingsImproperlyConfiguredException, "ES_DOC_TYPE")
    ELSE NoExc

\* a slip: the CRF check looks up the dictionary doc-type key
check_doc_type_for_crf_data_wrong_key(settings) ==
    IF ELASTICSEARCH_DOC_TYPE \notin DOMAIN settings
    THEN Exc(DataStoreSettingsImproperlyConfiguredException, "ES_DOC_TYPE")
    ELSE NoExc

\* _check_doc_type_for_crf_data_elasticsearch
check_doc_type_for_crf_data_elasticsearch(settings) ==
    IF ELASTICSEARCH_CRF_DATA_DOC_TYPE \notin DOMAIN settings
    THEN Exc(DataStoreSettingsImproperlyConfiguredException, "ES_TRAINING_DATA_DOC_TYPE")
    ELSE NoExc

(***************************************************************************)
(* Index lifecycle: create, delete, exists.                                *)
(***************************************************************************)
\* a slip: create_entity_index called without the ignore list
CreateEntityIndexIgnoreNothing == {}

\* create: ignore=[400, 404] of the create_entity_index call
CreateEntityIndexIgnore == {400, 404}

\* create: ignore=[400, 404] of the create_crf_index call
CreateCrfIndexIgnore == {400, 404}

\* delete: ignore=[400, 404] of the delete_index call
DeleteIndexIgnore == {400, 404}

\* a slip: the CRF index is provisioned whenever its doc-type is configured
CreateWantsCrfIndexByDocType(settings) ==
    ELASTICSEARCH_CRF_DATA_DOC_TYPE \in DOMAIN settings

\* create: `crf_data_index is not None`
CreateWantsCrfIndex(settings) ==
    DictGet(settings, ELASTICSEARCH_CRF_DATA_INDEX_NAME, None) # None

\* the body of create()
CreateBody(sn) ==
    IF engine = ELASTICSEARCH
    THEN LET chk   == check_doc_type_for_elasticsearch(connection_settings)
             r1    == EsCreateIndex(indices, sn, CreateEntityIndexIgnore)
             call1 == Call("create_entity_index", sn, r1.status)
             crf_data_index ==
                 DictGet(connection_settings, ELASTICSEARCH_CRF_DATA_INDEX_NAME, None)
             chk2  == check_doc_type_for_crf_data_elasticsearch(connection_settings)
             r2    == EsCreateIndex(r1.indices, crf_data_index, CreateCrfIndexIgnore)
             call2 == Call("create_crf_index", crf_data_index, r2.status)
         IN  IF chk.type # "none" THEN Same(chk, None, <<>>)
             ELSE IF r1.raised
             THEN Same(Exc(TransportError, "400"), None, <<call1>>)
             ELSE IF ~CreateWantsCrfIndex(connection_settings)
             THEN Step(NoExc, None, <<call1>>, r1.indices, docs, crf_docs)
             ELSE IF chk2.type # "none"
             THEN Step(chk2, None, <<call1>>, r1.indices, docs, crf_docs)
             ELSE IF r2.raised
             THEN Step(Exc(TransportError, "400"), None, <<call1, call2>>,
                       r1.indices, docs, crf_docs)
             ELSE Step(NoExc, None, <<call1, call2>>, r2.indices, docs, crf_docs)
    ELSE Same(NoExc, None, <<>>)

create ==
    \E ok \in DriverAnswers :
        LET c == EnsureConnected(ok)
        IN  Invoke("create", NoArgs, c, CreateBody(c.store_name))

\* a slip: delete() narrows the wildcard to the dictionary index
DeleteIndexNameDictionary(sn) == IF sn = ALL_INDICES THEN EntitiesIndex ELSE sn
\* index_name=self._store_name
DeleteIndexName(sn) == sn
\* the body of delete()
DeleteBody(sn) ==
    IF engine = ELASTICSEARCH
    THEN LET r    == EsDeleteIndex(indices, DeleteIndexName(sn), DeleteIndexIgnore)
             call == Call("delete_index", DeleteIndexName(sn), r.status)
         IN  IF r.raised
             THEN Same(Exc(TransportError, "404"), None, <<call>>)
             ELSE Step(NoExc, None, <<call>>, r.indices,
                       DocsWithin(docs, r.indices), CrfDocsWithin(crf_docs, r.indices))
    ELSE Same(NoExc, None, <<>>)

delete ==
    \E ok \in DriverAnswers :
        LET c == EnsureConnected(ok)
        IN  Invoke("delete", NoArgs, c, DeleteBody(c.store_name))

\* the body of exists()
ExistsBody(sn) ==
    IF engine = ELASTICSEARCH
    THEN Same(NoExc, EsExists(indices, sn), <<Call("exists", sn, 200)>>)
    ELSE Same(NoExc, FALSE, <<>>)

exists ==
    \E ok \in DriverAnswers :
        LET c == EnsureConnected(ok)
        IN  Invoke("exists", NoArgs, c, ExistsBody(c.store_name))

(***************************************************************************)
(* The CRF corpus: get_crf_data_for_entity_name, update_entity_crf_data.   *)
(***************************************************************************)
Entities == {"city", "brand"}
Sentences == {"i live in pune", "pune is hot"}
\* a training document: one sentence of an entity with its labelled spans
CrfRecords ==
    [entity_name : Entities, sentence : Sentences, entities : {<<"pune">>},
     language_script : {"en"}]

\* elastic_search.query.get_crf_data_for_entity_name: the (sentence, spans)
\* pairs stored for the entity; 404 when the index does not exist
EsCrfQuery(ind, cd, index_name, entity_name) ==
    [raised |-> index_name \notin ind,
     status |-> IF index_name \in ind THEN 200 ELSE 404,
     result |-> {<<r.sentence, r.entities>> : r \in {x \in cd : x.entity_name = entity_name}}]

\* elastic_search.populate.update_entity_crf_data_populate: appends the
\* labelled sentences; 404 when the index does not exist
EsCrfUpdate(ind, cd, index_name, record) ==
    [raised   |-> index_name \notin ind,
     status   |-> IF index_name \in ind THEN 200 ELSE 404,
     crf_docs |-> IF index_name \in ind THEN cd \cup {record} ELSE cd]

CrfIndexMissing ==
    Exc(IndexNotFoundException, "ELASTICSEARCH_CRF_DATA_INDEX_NAME")

\* the body of get_crf_data_for_entity_name(entity_name)
GetCrfDataBody(entity_name, kwargs) ==
    IF engine = ELASTICSEARCH
    THEN LET es_training_index ==
                 DictGet(connection_settings, ELASTICSEARCH_CRF_DATA_INDEX_NAME, None)
             chk  == check_doc_type_for_crf_data_elasticsearch(connection_settings)
             request_timeout == ConfiguredRequestTimeout(connection_settings)
             dup  == DuplicateKeyword(kwargs)
             q    == EsCrfQuery(indices, crf_docs, es_training_index, entity_name)
             call == TimedCall("get_crf_data_for_entity_name", es_training_index,
                               q.status, request_timeout)
         IN  IF es_training_index = None THEN Same(CrfIndexMissing, None, <<>>)
             ELSE IF chk.type # "none" THEN Same(chk, None, <<>>)
             ELSE IF dup.type # "none" THEN Same(dup, None, <<>>)
             ELSE IF q.raised THEN Same(Exc(TransportError, "404"), None, <<call>>)
             ELSE Same(NoExc, q.result, <<call>>)
    ELSE Same(NoExc, {}, <<>>)

get_crf_data_for_entity_name(entity_name, kwargs) ==
    \E ok \in DriverAnswers :
        LET c == EnsureConnected(ok)
        IN  Invoke("get_crf_data_for_entity_name",
                   [entity |-> entity_name, kwargs |-> kwargs], c,
                   GetCrfDataBody(entity_name, kwargs))

\* the body of update_entity_crf_data(entity_name, entity_list,
\* language_script, sentence_list), for one labelled sentence
UpdateCrfDataBody(record) ==
    IF engine = ELASTICSEARCH
    THEN LET chk  == check_doc_type_for_crf_data_elasticsearch(connection_settings)
             es_training_index ==
                 DictGet(connection_settings, ELASTICSEARCH_CRF_DATA_INDEX_NAME, None)
             u    == EsCrfUpdate(indices, crf_docs, es_training_index, record)
             call == Call("update_entity_crf_data_populate", es_training_index, u.status)
         IN  IF chk.type # "none" THEN Same(chk, None, <<>>)
             ELSE IF es_training_index = None THEN Same(CrfIndexMissing, None, <<>>)
             ELSE IF u.raised THEN Same(Exc(TransportError, "404"), None, <<call>>)
             ELSE Step(NoExc, None, <<call>>, indices, docs, u.crf_docs)
    ELSE Same(NoExc, None, <<>>)

update_entity_crf_data(record) ==
    /\ Cardinality(crf_docs \cup {record}) <= MaxCrfDocs
    /\ \E ok \in DriverAnswers :
        LET c == EnsureConnected(ok)
        IN  Invoke("update_entity_crf_data", [entity |-> record.entity_name], c,
                   UpdateCrfDataBody(record))

(***************************************************************************)
(* The specification of the lifecycle and CRF operations, over every       *)
(* configuration.                                                          *)
(***************************************************************************)
Init ==
    /\ CHATBOT_NER_DATASTORE \in Configs
    /\ pc = "new"
    /\ engine = None
    /\ connection_settings = EmptyDict
    /\ store_name = None
    /\ client_or_connection = None
    /\ indices \in SUBSET {RebuildIndex}
    /\ docs = [i \in DictIndexNames |-> {}]
    /\ crf_docs = {}
    /\ live_index = None
    /\ last = Outcome("none", NoArgs, NoExc, None, <<>>)
    /\ NothingToSync
    /\ in_flight = NothingInFlight
    /\ ServerNotStarted

Next ==
    \/ DataStore_init
    \/ create
    \/ delete
    \/ exists
    \/ \E e \in Entities : get_crf_data_for_entity_name(e, NoKwargs)
    \/ \E r \in CrfRecords : update_entity_crf_data(r)

Spec == Init /\ [][Next]_vars

(***************************************************************************)
(* Dictionary documents and the engine primitives on them                  *)
(* (elastic_search.connect.get_current_live_index, elastic_search.query,   *)
(* elastic_search.populate).  A query of an index that does not exist and  *)
(* a write to one answer 404; "_all" is no index to write documents to.    *)
(***************************************************************************)
Values == {"Mumbai", "Pune"}
Languages == {"en", "hi"}
\* a record as the caller gives it: value, variants, language script
Record(value, variants, language_script) ==
    [value |-> value, variants |-> variants, language_script |-> language_script]
\* the records the callers of the model give
ValueVariantRecords ==
    {Record("Mumbai", {"mumbai", "bombay"}, "en"), Record("Mumbai", {"bombay"}, "hi"),
     Record("Pune", {"pune"}, "en"), Record("Pune", {"pune", "poona"}, "hi")}
\* a stored document: the record under its entity name
Doc(entity_name, r) ==
    [entity_data |-> entity_name, value |-> r.value, variants |-> r.variants,
     language_script |-> r.language_script]
\* the record of a stored document
RecordOf(doc) ==
    [value |-> doc.value, variants |-> doc.variants,
     language_script |-> doc.language_script]

\* the `values` argument: None, or a list of values
ValuesNone == [none |-> TRUE, list |-> {}]
ValuesList(l) == [none |-> FALSE, list |-> l]
ValuesArgs == {ValuesNone} \cup {ValuesList(l) : l \in SUBSET Values \ {{}}}
Selected(doc, entity_name, values) ==
    doc.entity_data = entity_name /\ (values.none \/ doc.value \in values.list)

\* the dictionary documents a name addresses
DocsOf(ind, d, name) == UNION {d[i] : i \in Addressed(ind, name) \cap DOMAIN d}
TotalDocs(d) == Cardinality(UNION {{<<i, x>> : x \in d[i]} : i \in DOMAIN d})
QueryStatus(ind, name) == IF name = ALL_INDICES \/ name \in ind THEN 200 ELSE 404
WriteStatus(ind, name) ==
    IF name = ALL_INDICES THEN 400 ELSE IF name \in ind THEN 200 ELSE 404

\* elastic_search.connect.get_current_live_index(name): the index the live
\* pointer of the logical name resolves to; raises when it cannot resolve
EsGetCurrentLiveIndex(ptr, name) ==
    [raised |-> ptr = None, index |-> ptr, status |-> IF ptr = None THEN 404 ELSE 200]

\* elastic_search.query.get_entity_data
EsGetEntityData(ind, d, name, entity_name, values) ==
    [status |-> QueryStatus(ind, name),
     result |-> {RecordOf(x) : x \in {y \in DocsOf(ind, d, name) :
                                          Selected(y, entity_name, values)}}]

\* elastic_search.query.dictionary_query: value -> variants, over languages
EsDictionaryQuery(ind, d, name, entity_name) ==
    LET hits == {y \in DocsOf(ind, d, name) : y.entity_data = entity_name}
    IN  [status |-> QueryStatus(ind, name),
         result |-> [v \in {y.value : y \in hits} |->
                        UNION {y.variants : y \in {z \in hits : z.value = v}}]]

\* elastic_search.query.full_text_query, for a one-token text and no
\* fuzziness: the (variant, value) pairs whose variant is the text
EsFullTextQuery(ind, d, name, entity_name, text, search_language_script) ==
    LET hits == {y \in DocsOf(ind, d, name) :
                    /\ y.entity_data = entity_name
                    /\ text \in y.variants
                    /\ search_language_script \in {None, y.language_script}}
    IN  [status |-> QueryStatus(ind, name),
         result |-> {<<text, y.value>> : y \in hits}]

\* elastic_search.query.get_entity_unique_values
EsGetEntityUniqueValues(ind, d, name, entity_name) ==
    [status |-> QueryStatus(ind, name),
     result |-> {y.value : y \in {z \in DocsOf(ind, d, name) :
                                      z.entity_data = entity_name}}]

\* elastic_search.query.get_entity_supported_languages
EsGetEntitySupportedLanguages(ind, d, name, entity_name) ==
    [status |-> QueryStatus(ind, name),
     result |-> {y.language_script : y \in {z \in DocsOf(ind, d, name) :
                                                z.entity_data = entity_name}}]

\* elastic_search.populate.add_entity_data: appends the records
EsAddEntityData(ind, d, name, entity_name, records) ==
    [status |-> WriteStatus(ind, name),
     docs   |-> IF WriteStatus(ind, name) = 200
                THEN [d EXCEPT ![name] = @ \cup {Doc(entity_name, r) : r \in records}]
                ELSE d]

\* elastic_search.populate.entity_data_update: upsert by value within the
\* language script
EsEntityDataUpdate(ind, d, name, entity_name, entity_data, language_script) ==
    LET new == {Doc(entity_name, [value |-> x.value, variants |-> x.variants,
                                  language_script |-> language_script]) :
                    x \in entity_data}
        old == {y \in d[name] : /\ y.entity_data = entity_name
                                /\ y.language_script = language_script
                                /\ y.value \in {x.value : x \in entity_data}}
    IN  [status |-> WriteStatus(ind, name),
         docs   |-> IF WriteStatus(ind, name) = 200
                    THEN [d EXCEPT ![name] = (@ \ old) \cup new]
                    ELSE d]

\* elastic_search.populate.delete_entity_data_by_values: removes the
\* documents of the entity whose value is listed, all of them for None
EsDeleteEntityDataByValues(ind, d, name, entity_name, values) ==
    [status |-> QueryStatus(ind, name),
     docs   |-> [i \in DOMAIN d |->
                    IF i \in Addressed(ind, name)
                    THEN {y \in d[i] : ~Selected(y, entity_name, values)}
                    ELSE d[i]]]

\* elastic_search.populate.delete_entity_by_name
EsDeleteEntityByName(ind, d, name, entity_name) ==
    EsDeleteEntityDataByValues(ind, d, name, entity_name, ValuesNone)

Raised(status, ignore) == status >= 400 /\ status \notin ignore
StatusError(status) ==
    Exc(TransportError, IF status = 404 THEN "404" ELSE "400")

(***************************************************************************)
(* Query operations.                                                       *)
(***************************************************************************)
\* a query operation: the doc-type check, one query call, its result
QueryBody(fn, index_name, q, kwargs) ==
    LET chk  == check_doc_type_for_elasticsearch(connection_settings)
        request_timeout == ConfiguredRequestTimeout(connection_settings)
        dup  == DuplicateKeyword(kwargs)
        call == TimedCall(fn, index_name, q.status, request_timeout)
    IN  IF chk.type # "none" THEN Same(chk, None, <<>>)
        ELSE IF dup.type # "none" THEN Same(dup, None, <<>>)
        ELSE IF Raised(q.status, {}) THEN Same(StatusError(q.status), None, <<call>>)
        ELSE Same(NoExc, q.result, <<call>>)

\* the body of get_entity_dictionary(entity_name)
GetEntityDictionaryBody(sn, entity_name, kwargs) ==
    IF engine = ELASTICSEARCH
    THEN QueryBody("dictionary_query", sn,
                   EsDictionaryQuery(indices, docs, sn, entity_name), kwargs)
    ELSE Same(NoExc, EmptyDict, <<>>)

get_entity_dictionary(entity_name, kwargs) ==
    \E ok \in DriverAnswers :
        LET c == EnsureConnected(ok)
        IN  Invoke("get_entity_dictionary",
                   [entity |-> entity_name, kwargs |-> kwargs], c,
                   GetEntityDictionaryBody(c.store_name, entity_name, kwargs))

\* the body of get_similar_dictionary(entity_name, text,
\* fuzziness_threshold, search_language_script)
GetSimilarDictionaryBody(sn, entity_name, text, search_language_script, kwargs) ==
    IF engine = ELASTICSEARCH
    THEN QueryBody("full_text_query", sn,
                   EsFullTextQuery(indices, docs, sn, entity_name, text,
                                   search_language_script), kwargs)
    ELSE Same(NoExc, {}, <<>>)

get_similar_dictionary(entity_name, text, search_language_script, kwargs) ==
    \E ok \in DriverAnswers :
        LET c == EnsureConnected(ok)
        IN  Invoke("get_similar_dictionary",
                   [entity |-> entity_name, text |-> text,
                    search_language_script |-> search_language_script,
                    kwargs |-> kwargs], c,
                   GetSimilarDictionaryBody(c.store_name, entity_name, text,
                                            search_language_script, kwargs))

\* the body of get_entity_supported_languages(entity_name)
GetEntitySupportedLanguagesBody(sn, entity_name, kwargs) ==
    IF engine = ELASTICSEARCH
    THEN QueryBody("get_entity_supported_languages", sn,
                   EsGetEntitySupportedLanguages(indices, docs, sn, entity_name), kwargs)
    ELSE Same(NoExc, None, <<>>)

get_entity_supported_languages(entity_name, kwargs) ==
    \E ok \in DriverAnswers :
        LET c == EnsureConnected(ok)
        IN  Invoke("get_entity_supported_languages",
                   [entity |-> entity_name, kwargs |-> kwargs], c,
                   GetEntitySupportedLanguagesBody(c.store_name, entity_name, kwargs))

\* the body of get_entity_unique_values(entity_name)
GetEntityUniqueValuesBody(sn, entity_name, kwargs) ==
    IF engine = ELASTICSEARCH
    THEN QueryBody("get_entity_unique_values", sn,
                   EsGetEntityUniqueValues(indices, docs, sn, entity_name), kwargs)
    ELSE Same(NoExc, None, <<>>)

get_entity_unique_values(entity_name, kwargs) ==
    \E ok \in DriverAnswers :
        LET c == EnsureConnected(ok)
        IN  Invoke("get_entity_unique_values",
                   [entity |-> entity_name, kwargs |-> kwargs], c,
                   GetEntityUniqueValuesBody(c.store_name, entity_name, kwargs))

\* a slip: get_entity_data does not forward its `values` filter
GetEntityDataValuesDropped(values) == ValuesNone

\* get_entity_data: `values=values` of the query call
GetEntityDataValues(values) == values

\* the body of get_entity_data(entity_name, values)
GetEntityDataBody(sn, entity_name, values, kwargs) ==
    IF engine = ELASTICSEARCH
    THEN QueryBody("get_entity_data", sn,
                   EsGetEntityData(indices, docs, sn, entity_name,
                                   GetEntityDataValues(values)), kwargs)
    ELSE Same(NoExc, None, <<>>)

get_entity_data(entity_name, values, kwargs) ==
    \E ok \in DriverAnswers :
        LET c == EnsureConnected(ok)
        IN  Invoke("get_entity_data",
                   [entity |-> entity_name, values |-> values, kwargs |-> kwargs], c,
                   GetEntityDataBody(c.store_name, entity_name, values, kwargs))

(***************************************************************************)
(* Mutation operations.                                                    *)
(***************************************************************************)
\* the body of delete_entity(entity_name)
DeleteEntityBody(sn, entity_name) ==
    IF engine = ELASTICSEARCH
    THEN LET chk  == check_doc_type_for_elasticsearch(connection_settings)
             r    == EsDeleteEntityByName(indices, docs, sn, entity_name)
             call == Call("delete_entity_by_name", sn, r.status)
         IN  IF chk.type # "none" THEN Same(chk, None, <<>>)
             ELSE IF Raised(r.status, {400, 404})
             THEN Same(StatusError(r.status), None, <<call>>)
             ELSE Step(NoExc, None, <<call>>, indices, r.docs, crf_docs)
    ELSE Same(NoExc, None, <<>>)

delete_entity(entity_name) ==
    \E ok \in DriverAnswers :
        LET c == EnsureConnected(ok)
        IN  Invoke("delete_entity", [entity |-> entity_name], c,
                   DeleteEntityBody(c.store_name, entity_name))

\* the resolver call as the log shows it
LiveIndexCall(sn, live) == Call("get_current_live_index", sn, live.status)
LiveIndexFailure == Exc(LiveIndexError, "")

\* update_entity_data: the try/except around the resolver
UpdateEntityDataIndexName(sn, live) ==
    IF live.raised THEN sn ELSE live.index

\* update_entity_data(entity_name, entity_data, language_script) with `live`
\* being what the resolver answers
UpdateEntityDataResolved(sn, entity_name, entity_data, language_script, live) ==
    IF engine = ELASTICSEARCH
    THEN LET chk  == check_doc_type_for_elasticsearch(connection_settings)
             update_index == UpdateEntityDataIndexName(sn, live)
             u    == EsEntityDataUpdate(indices, docs, update_index, entity_name,
                                        entity_data, language_script)
             call == Call("entity_data_update", update_index, u.status)
         IN  IF chk.type # "none" THEN Same(chk, None, <<>>)
             ELSE IF Raised(u.status, {})
             THEN Same(StatusError(u.status), None, <<LiveIndexCall(sn, live), call>>)
             ELSE Step(NoExc, None, <<LiveIndexCall(sn, live), call>>,
                       indices, u.docs, crf_docs)
    ELSE Same(NoExc, None, <<>>)

\* update_entity_data(entity_name, entity_data, language_script) from the
\* resolver on, when nothing moves the live pointer between its two calls
UpdateEntityDataBody(sn, entity_name, entity_data, language_script) ==
    UpdateEntityDataResolved(sn, entity_name, entity_data, language_script,
                             EsGetCurrentLiveIndex(live_index, sn))

\* a slip: delete_entity_data_by_values does not forward its `values`
DeleteEntityDataValuesDropped(values) == ValuesNone

\* delete_entity_data_by_values: `values=values` of the delete call
DeleteEntityDataValues(values) == values

\* delete_entity_data_by_values(entity_name, values) with `live` being what
\* the resolver answers
DeleteEntityDataByValuesResolved(sn, entity_name, values, live) ==
    IF engine = ELASTICSEARCH
    THEN LET chk  == check_doc_type_for_elasticsearch(connection_settings)
             update_index == live.index
             r    == EsDeleteEntityDataByValues(indices, docs, update_index, entity_name,
                                                DeleteEntityDataValues(values))
             call == Call("delete_entity_data_by_values", update_index, r.status)
         IN  IF chk.type # "none" THEN Same(chk, None, <<>>)
             ELSE IF live.raised
             THEN Same(LiveIndexFailure, None, <<LiveIndexCall(sn, live)>>)
             ELSE IF Raised(r.status, {})
             THEN Same(StatusError(r.status), None, <<LiveIndexCall(sn, live), call>>)
             ELSE Step(NoExc, None, <<LiveIndexCall(sn, live), call>>,
                       indices, r.docs, crf_docs)
    ELSE Same(NoExc, None, <<>>)

\* delete_entity_data_by_values(entity_name, values) from the resolver on,
\* when nothing moves the live pointer between its two calls
DeleteEntityDataByValuesBody(sn, entity_name, values) ==
    DeleteEntityDataByValuesResolved(sn, entity_name, values,
                                     EsGetCurrentLiveIndex(live_index, sn))

\* a slip: add_entity_data writes to the store name, not the live index
AddEntityDataIndexNameStore(sn, live) == sn

\* add_entity_data: `index_name=update_index` of the add call
AddEntityDataIndexName(sn, live) == live.index

\* a slip: add_entity_data forwards no records
AddEntityDataRecordsDropped(value_variant_records) == {}

\* add_entity_data: `value_variant_records=value_variant_records`
AddEntityDataRecords(value_variant_records) == value_variant_records

\* add_entity_data(entity_name, value_variant_records) with `live` being
\* what the resolver answers
AddEntityDataResolved(sn, entity_name, value_variant_records, live) ==
    IF engine = ELASTICSEARCH
    THEN LET chk  == check_doc_type_for_elasticsearch(connection_settings)
             update_index == AddEntityDataIndexName(sn, live)
             a    == EsAddEntityData(indices, docs, update_index, entity_name,
                                     AddEntityDataRecords(value_variant_records))
             call == Call("add_entity_data", update_index, a.status)
         IN  IF chk.type # "none" THEN Same(chk, None, <<>>)
             ELSE IF live.raised
             THEN Same(LiveIndexFailure, None, <<LiveIndexCall(sn, live)>>)
             ELSE IF Raised(a.status, {})
             THEN Same(StatusError(a.status), None, <<LiveIndexCall(sn, live), call>>)
             ELSE Step(NoExc, None, <<LiveIndexCall(sn, live), call>>,
                       indices, a.docs, crf_docs)
    ELSE Same(NoExc, None, <<>>)

\* add_entity_data(entity_name, value_variant_records) from the resolver
\* on, when nothing moves the live pointer between its two calls
AddEntityDataBody(sn, entity_name, value_variant_records) ==
    AddEntityDataResolved(sn, entity_name, value_variant_records,
                          EsGetCurrentLiveIndex(live_index, sn))

(***************************************************************************)
(* The mutations that resolve the live index, call by call.  The method    *)
(* asks the resolver, keeps the answer in its local update_index and then  *)
(* calls the write with it; it takes no lock, so other processes run       *)
(* between the two calls.                                                  *)
(***************************************************************************)
ResolvingMutations ==
    {"add_entity_data", "update_entity_data", "delete_entity_data_by_values"}

\* a mutation between its two calls: the resolver has answered, the write
\* is not issued yet
Mutating(op, args, live, calls) ==
    [op |-> op, args |-> args, live |-> live, calls |-> calls]

\* a slip: the pointer is read again when the write is issued
UpdateIndexReadAgain(live) == EsGetCurrentLiveIndex(live_index, store_name)

\* update_index: the local that holds the resolver's answer until the write
UpdateIndexHeld(live) == live

\* the method `op` from the resolver's answer on
MutationResolved(op, args, sn, live) ==
    CASE op = "add_entity_data" ->
            AddEntityDataResolved(sn, args.entity, args.records, live)
      [] op = "update_entity_data" ->
            UpdateEntityDataResolved(sn, args.entity, args.entity_data,
                                     args.language_script, live)
      [] op = "delete_entity_data_by_values" ->
            DeleteEntityDataByValuesResolved(sn, args.entity, args.values, live)

\* how an operation in flight ends: its outcome is the last call
Completes(op, args, exc, calls) ==
    /\ in_flight' = NothingInFlight
    /\ last' = Outcome(op, args, exc, None, calls)

\* the method `op` up to the answer of the resolver; it ends there when it
\* raises before its write
Resolve(op, args) ==
    /\ pc # "new"
    /\ in_flight = NothingInFlight
    /\ \E ok \in DriverAnswers :
        LET c    == EnsureConnected(ok)
            live == EsGetCurrentLiveIndex(live_index, c.store_name)
            b    == MutationResolved(op, args, c.store_name, live)
        IN  /\ pc' = IF c.client # None THEN "ready" ELSE pc
            /\ store_name' = c.store_name
            /\ client_or_connection' = c.client
            /\ IF c.exc.type # "none"
               THEN Completes(op, args, c.exc, c.calls)
               ELSE IF Len(b.calls) < 2
               THEN Completes(op, args, b.exc, c.calls \o b.calls)
               ELSE /\ in_flight' = Mutating(op, args, live, c.calls)
                    /\ UNCHANGED last
    /\ UNCHANGED <<CHATBOT_NER_DATASTORE, engine, connection_settings>>
    /\ UNCHANGED cluster_vars
    /\ UNCHANGED <<now, http_server, io_loop>>
    /\ UNCHANGED sync_vars

\* add_entity_data, up to the answer of get_current_live_index; the write
\* that follows is resolved_write
add_entity_data(entity_name, value_variant_records) ==
    /\ TotalDocs(docs) < MaxDocs
    /\ Resolve("add_entity_data",
               [entity |-> entity_name, records |-> value_variant_records])

\* update_entity_data, up to the answer of get_current_live_index or its
\* failure, which leaves the store name in update_index
update_entity_data(entity_name, entity_data, language_script) ==
    /\ TotalDocs(docs) < MaxDocs
    /\ Resolve("update_entity_data",
               [entity |-> entity_name, entity_data |-> entity_data,
                language_script |-> language_script])

\* delete_entity_data_by_values, up to the answer of get_current_live_index
delete_entity_data_by_values(entity_name, values) ==
    Resolve("delete_entity_data_by_values", [entity |-> entity_name, values |-> values])

\* the second call of the mutation in flight: the write, to the index held
\* in update_index
resolved_write ==
    /\ in_flight.op \in ResolvingMutations
    /\ LET b == MutationResolved(in_flight.op, in_flight.args, store_name,
                                 UpdateIndexHeld(in_flight.live))
       IN  /\ TotalDocs(b.docs) <= MaxDocs
           /\ Completes(in_flight.op, in_flight.args, b.exc, in_flight.calls \o b.calls)
           /\ indices' = b.indices
           /\ docs' = b.docs
           /\ crf_docs' = b.crf_docs
    /\ UNCHANGED <<CHATBOT_NER_DATASTORE, pc, engine, connection_settings, store_name,
                   client_or_connection, live_index>>
    /\ UNCHANGED <<now, http_server, io_loop>>
    /\ UNCHANGED sync_vars

(***************************************************************************)
(* The rebuild process, outside the store: it provisions an index and      *)
(* points the live pointer at it, or the pointer is lost.                  *)
(***************************************************************************)
rebuild_flip(target) ==
    /\ live_index # target
    /\ live_index' = target
    /\ indices' = IF target = None THEN indices ELSE indices \cup {target}
    /\ last' = Outcome("rebuild_flip", NoArgs, NoExc, None, <<>>)
    /\ UNCHANGED <<CHATBOT_NER_DATASTORE, pc, engine, connection_settings, store_name,
                   client_or_connection, docs, crf_docs>>
    /\ UNCHANGED sync_vars
    /\ UNCHANGED process_vars

(***************************************************************************)
(* The specification of the dictionary operations, over the configurations *)
(* of the search engine without a CRF index.                               *)
(***************************************************************************)
DataConfigs ==
    {cfg \in Configs :
        /\ cfg.engine = ELASTICSEARCH
        /\ DOMAIN cfg.engines = {ELASTICSEARCH}
        /\ DOMAIN cfg.engines[ELASTICSEARCH] \in
               {{ELASTICSEARCH_INDEX_NAME, ELASTICSEARCH_DOC_TYPE},
                {ELASTICSEARCH_DOC_TYPE},
                {ELASTICSEARCH_INDEX_NAME}}}

InitData ==
    /\ CHATBOT_NER_DATASTORE \in DataConfigs
    /\ pc = "new"
    /\ engine = None
    /\ connection_settings = EmptyDict
    /\ store_name = None
    /\ client_or_connection = None
    /\ indices = {}
    /\ docs = [i \in DictIndexNames |-> {}]
    /\ crf_docs = {}
    /\ live_index \in {None, EntitiesIndex}
    /\ last = Outcome("none", NoArgs, NoExc, None, <<>>)
    /\ NothingToSync
    /\ in_flight = NothingInFlight
    /\ ServerNotStarted

Texts == {"bombay", "pune"}
\* the caller of the store between two of its operations
Idle == in_flight = NothingInFlight

NextData ==
    \/ Idle /\ DataStore_init
    \/ Idle /\ create
    \/ Idle /\ delete
    \/ Idle /\ exists
    \/ Idle /\ \E e \in Entities : get_entity_dictionary(e, NoKwargs)
    \/ Idle /\ \E e \in Entities, t \in Texts, l \in {None, "en"} :
           get_similar_dictionary(e, t, l, NoKwargs)
    \/ Idle /\ \E e \in Entities : get_entity_unique_values(e, NoKwargs)
    \/ Idle /\ \E e \in Entities : get_entity_supported_languages(e, NoKwargs)
    \/ Idle /\ \E e \in Entities, vs \in ValuesArgs : get_entity_data(e, vs, NoKwargs)
    \/ Idle /\ \E e \in Entities : delete_entity(e)
    \/ Idle /\ \E r \in ValueVariantRecords :
           update_entity_data("city", {[value |-> r.value, variants |-> r.variants]},
                              r.language_script)
    \/ Idle /\ \E vs \in ValuesArgs : delete_entity_data_by_values("city", vs)
    \/ Idle /\ \E e \in Entities, r \in ValueVariantRecords : add_entity_data(e, {r})
    \/ resolved_write
    \/ \E t \in DictIndexNames \cup {None} : rebuild_flip(t)

SpecData == InitData /\ [][NextData]_vars

(***************************************************************************)
(* Bulk population: populate and repopulate.  The engine primitives        *)
(* (elastic_search.populate.create_all_dictionary_data and                 *)
(* recreate_all_dictionary_data) are outside the sources at hand.  A       *)
(* source file holds the rows of one entity; the bulk write stores the     *)
(* rows as the file gives them, and each document of a batch is stored or  *)
(* fails on its own.  The rebuild is three calls to the cluster in a row   *)
(* (drop the index, create it, write the rows) with nothing holding them   *)
(* together, so the store is seen between them.                            *)
(***************************************************************************)
\* the rows of the source files: the row of the dictionary scenario, and a
\* row as the example output of get_entity_dictionary shows them, whose
\* variants are the words of the value
SourceRows ==
    {Record("Mumbai", {"Mumbai", "mumbai"}, "en"),
     Record("Rajgarh Alwar", {"Rajgarh", "Alwar"}, "en")}
\* a source file: the entity it is named after and its rows
SourceFile(entity_name, rows) == [entity_name |-> entity_name, rows |-> rows]
\* the csv_file_paths arguments of the model: lists of one file
SourceFiles ==
    {{SourceFile("city", rows)} : rows \in SUBSET SourceRows \ {{}}}
\* the documents the files hold
SourceDocs(files) == UNION {{Doc(f.entity_name, r) : r \in f.rows} : f \in files}

\* the bulk write as the log shows it: the documents stored
BulkCall(fn, index, status, stored) ==
    [fn |-> fn, index |-> index, status |-> status, stored |-> stored]

\* elastic_search.populate.create_all_dictionary_data: writes the documents
\* of the files in bulk; `stored` are those whose write succeeded
EsCreateAllDictionaryData(ind, d, name, stored) ==
    [status |-> WriteStatus(ind, name),
     docs   |-> IF WriteStatus(ind, name) = 200
                THEN [d EXCEPT ![name] = @ \cup stored]
                ELSE d]

\* a slip: populate writes to the index being rebuilt
PopulateIndexNameRebuild(sn) == RebuildIndex

\* populate: `index_name=self._store_name`
PopulateIndexName(sn) == sn

\* the body of populate(entity_data_directory_path, csv_file_paths)
PopulateBody(sn, files, stored) ==
    IF engine = ELASTICSEARCH
    THEN LET chk  == check_doc_type_for_elasticsearch(connection_settings)
             index_name == PopulateIndexName(sn)
             w    == EsCreateAllDictionaryData(indices, docs, index_name, stored)
             call == BulkCall("create_all_dictionary_data", index_name, w.status,
                              IF w.status = 200 THEN stored ELSE {})
         IN  IF chk.type # "none" THEN Same(chk, None, <<>>)
             ELSE IF Raised(w.status, {})
             THEN Same(StatusError(w.status), None, <<call>>)
             ELSE Step(NoExc, None, <<call>>, indices, w.docs, crf_docs)
    ELSE Same(NoExc, None, <<>>)

populate(files) ==
    /\ in_flight = NothingInFlight
    /\ \E ok \in DriverAnswers, stored \in SUBSET SourceDocs(files) :
        LET c == EnsureConnected(ok)
            b == PopulateBody(c.store_name, files, stored)
        IN  /\ TotalDocs(b.docs) <= MaxDocs
            /\ Invoke("populate", [entity |-> None, files |-> files], c, b)

\* a slip: repopulate rebuilds the index being rebuilt elsewhere
RepopulateIndexNameRebuild(sn) == RebuildIndex

\* repopulate: `index_name=self._store_name`
RepopulateIndexName(sn) == sn

\* repopulate: ignore=[400, 404] of the recreate_all_dictionary_data call
RepopulateIgnore == {400, 404}

\* the rebuild in flight: the step it has done, its files, its index and
\* the calls it has made
Rebuilding(step, files, index_name, calls) ==
    [op |-> "repopulate", step |-> step, files |-> files, index_name |-> index_name,
     calls |-> calls]

\* repopulate(...), up to the first call of recreate_all_dictionary_data:
\* the index is dropped; cluster_up is whether the cluster answers
repopulate(files) ==
    /\ pc # "new"
    /\ in_flight = NothingInFlight
    /\ \E ok \in DriverAnswers, cluster_up \in BOOLEAN :
        LET c    == EnsureConnected(ok)
            args == [entity |-> None, files |-> files]
            chk  == check_doc_type_for_elasticsearch(connection_settings)
            index_name == RepopulateIndexName(c.store_name)
            r    == EsDeleteIndex(indices, index_name, RepopulateIgnore)
            call == Call("delete_index", index_name, IF cluster_up THEN r.status ELSE 503)
        IN  /\ pc' = IF c.client # None THEN "ready" ELSE pc
            /\ store_name' = c.store_name
            /\ client_or_connection' = c.client
            /\ IF c.exc.type # "none"
               THEN /\ Completes("repopulate", args, c.exc, c.calls)
                    /\ UNCHANGED <<indices, docs, crf_docs>>
               ELSE IF engine # ELASTICSEARCH
               THEN /\ Completes("repopulate", args, NoExc, c.calls)
                    /\ UNCHANGED <<indices, docs, crf_docs>>
               ELSE IF chk.type # "none"
               THEN /\ Completes("repopulate", args, chk, c.calls)
                    /\ UNCHANGED <<indices, docs, crf_docs>>
               ELSE IF ~cluster_up
               THEN /\ Completes("repopulate", args, Exc(TransportError, "503"),
                                 c.calls \o <<call>>)
                    /\ UNCHANGED <<indices, docs, crf_docs>>
               ELSE /\ in_flight' = Rebuilding("deleted", files, index_name,
                                               c.calls \o <<call>>)
                    /\ indices' = r.indices
                    /\ docs' = DocsWithin(docs, r.indices)
                    /\ crf_docs' = CrfDocsWithin(crf_docs, r.indices)
                    /\ UNCHANGED last
    /\ UNCHANGED <<CHATBOT_NER_DATASTORE, engine, connection_settings, live_index>>
    /\ UNCHANGED <<now, http_server, io_loop>>
    /\ UNCHANGED sync_vars

\* recreate_all_dictionary_data, second call: the index is created
repopulate_create ==
    /\ in_flight.op = "repopulate"
    /\ in_flight.step = "deleted"
    /\ \E cluster_up \in BOOLEAN :
        LET args == [entity |-> None, files |-> in_flight.files]
            r    == EsCreateIndex(indices, in_flight.index_name, RepopulateIgnore)
            call == Call("create_entity_index", in_flight.index_name,
                         IF cluster_up THEN r.status ELSE 503)
        IN  IF cluster_up
            THEN /\ in_flight' = Rebuilding("created", in_flight.files,
                                            in_flight.index_name,
                                            in_flight.calls \o <<call>>)
                 /\ indices' = r.indices
                 /\ UNCHANGED last
            ELSE /\ Completes("repopulate", args, Exc(TransportError, "503"),
                              in_flight.calls \o <<call>>)
                 /\ UNCHANGED indices
    /\ UNCHANGED <<CHATBOT_NER_DATASTORE, pc, engine, connection_settings, store_name,
                   client_or_connection, docs, crf_docs, live_index>>
    /\ UNCHANGED <<now, http_server, io_loop>>
    /\ UNCHANGED sync_vars

\* recreate_all_dictionary_data, third call: the rows are written in bulk;
\* the call returns when it has gone through the batch (the documents that
\* failed are reported, not raised) and raises when the cluster is lost on
\* the way, with the documents stored so far left in the index
repopulate_populate ==
    /\ in_flight.op = "repopulate"
    /\ in_flight.step = "created"
    /\ \E cluster_up \in BOOLEAN, stored \in SUBSET SourceDocs(in_flight.files) :
        LET args == [entity |-> None, files |-> in_flight.files]
            w    == EsCreateAllDictionaryData(indices, docs, in_flight.index_name, stored)
            call == BulkCall("create_all_dictionary_data", in_flight.index_name,
                             IF cluster_up THEN w.status ELSE 503,
                             IF w.status = 200 THEN stored ELSE {})
        IN  /\ TotalDocs(w.docs) <= MaxDocs
            /\ ~cluster_up => stored # SourceDocs(in_flight.files)
            /\ docs' = w.docs
            /\ Completes("repopulate", args,
                         IF ~cluster_up THEN Exc(TransportError, "503")
                         ELSE IF Raised(w.status, {}) THEN StatusError(w.status)
                         ELSE NoExc,
                         in_flight.calls \o <<call>>)
    /\ UNCHANGED <<CHATBOT_NER_DATASTORE, pc, engine, connection_settings, store_name,
                   client_or_connection, indices, crf_docs, live_index>>
    /\ UNCHANGED <<now, http_server, io_loop>>
    /\ UNCHANGED sync_vars

(***************************************************************************)
(* The specification of the bulk population: one store, its readers and    *)
(* its writers.  The readers run at any time, also between the calls of a  *)
(* rebuild; the writers and the other lifecycle operations of the model    *)
(* run between rebuilds.                                                   *)
(***************************************************************************)
InitPopulate ==
    /\ CHATBOT_NER_DATASTORE \in DataConfigs
    /\ pc = "new"
    /\ engine = None
    /\ connection_settings = EmptyDict
    /\ store_name = None
    /\ client_or_connection = None
    /\ indices = {}
    /\ docs = [i \in DictIndexNames |-> {}]
    /\ crf_docs = {}
    /\ live_index \in {None, EntitiesIndex}
    /\ last = Outcome("none", NoArgs, NoExc, None, <<>>)
    /\ NothingToSync
    /\ in_flight = NothingInFlight
    /\ ServerNotStarted

\* the operations that run between rebuilds
BetweenRebuilds ==
    \/ DataStore_init
    \/ create
    \/ delete
    \/ \E e \in Entities : delete_entity(e)
    \/ update_entity_data("city", {[value |-> "Mumbai", variants |-> {"bombay"}]}, "en")
    \/ \E vs \in {ValuesNone, ValuesList({"Mumbai"})} :
           delete_entity_data_by_values("city", vs)
    \/ \E r \in {Record("Mumbai", {"bombay"}, "hi"), Record("Pune", {"pune"}, "en")} :
           add_entity_data("city", {r})
    \/ \E t \in DictIndexNames : rebuild_flip(t)

NextPopulate ==
    \/ Idle /\ BetweenRebuilds
    \/ resolved_write
    \/ exists
    \/ \E e \in Entities : get_entity_dictionary(e, NoKwargs)
    \/ \E files \in SourceFiles : populate(files)
    \/ \E files \in SourceFiles : repopulate(files)
    \/ repopulate_create
    \/ repopulate_populate

SpecPopulate == InitPopulate /\ [][NextPopulate]_vars

(***************************************************************************)
(* The specification of the mutations next to the rebuild process: one     *)
(* caller of the store, whose mutation is two steps, and the process that  *)
(* moves the live pointer.                                                 *)
(***************************************************************************)
NextRace ==
    \/ Idle /\ DataStore_init
    \/ Idle /\ create
    \/ \E e \in Entities, r \in ValueVariantRecords : add_entity_data(e, {r})
    \/ \E r \in ValueVariantRecords :
           update_entity_data("city", {[value |-> r.value, variants |-> r.variants]},
                                      r.language_script)
    \/ \E vs \in ValuesArgs : delete_entity_data_by_values("city", vs)
    \/ resolved_write
    \/ \E t \in DictIndexNames \cup {None} : rebuild_flip(t)

SpecRace == InitPopulate /\ [][NextRace]_vars

(***************************************************************************)
(* The store with and without the CRF settings.  The environment of a      *)
(* deployment can name a CRF index and a CRF doc-type or leave them out;   *)
(* a process started again after they are taken out of the environment     *)
(* finds the same cluster with settings that differ in those keys only.    *)
(***************************************************************************)
CrfKeys == {ELASTICSEARCH_CRF_DATA_INDEX_NAME, ELASTICSEARCH_CRF_DATA_DOC_TYPE}
\* the settings with the CRF keys left out
WithoutCrf(settings) == [k \in DOMAIN settings \ CrfKeys |-> settings[k]]

\* the process is started again with the CRF keys taken out of the
\* environment: DataStore() reads the new settings and the driver gives a
\* handle; the cluster is as it was
restart_without_crf ==
    /\ pc = "ready"
    /\ in_flight = NothingInFlight
    /\ engine = ELASTICSEARCH
    /\ DOMAIN connection_settings \cap CrfKeys # {}
    /\ CHATBOT_NER_DATASTORE' =
           [CHATBOT_NER_DATASTORE EXCEPT !.engines =
               [n \in DOMAIN @ |-> IF n = ELASTICSEARCH THEN WithoutCrf(@[n]) ELSE @[n]]]
    /\ connection_settings' = WithoutCrf(connection_settings)
    /\ store_name' = Connect(engine, connection_settings', None, TRUE).store_name
    /\ client_or_connection' = Connect(engine, connection_settings', None, TRUE).client
    /\ last' = Outcome("restart_without_crf", NoArgs, NoExc, None,
                       Connect(engine, connection_settings', None, TRUE).calls)
    /\ UNCHANGED <<pc, engine>>
    /\ UNCHANGED cluster_vars
    /\ UNCHANGED sync_vars
    /\ UNCHANGED process_vars

\* the configurations of the search engine, with every choice of CRF keys
FrameConfigs ==
    {cfg \in Configs :
        /\ cfg.engine = ELASTICSEARCH
        /\ DOMAIN cfg.engines = {ELASTICSEARCH}
        /\ DOMAIN cfg.engines[ELASTICSEARCH] \ CrfKeys \in
               {{ELASTICSEARCH_INDEX_NAME, ELASTICSEARCH_DOC_TYPE},
                {ELASTICSEARCH_DOC_TYPE},
                {ELASTICSEARCH_INDEX_NAME}}}

InitFrame ==
    /\ CHATBOT_NER_DATASTORE \in FrameConfigs
    /\ pc = "new"
    /\ engine = None
    /\ connection_settings = EmptyDict
    /\ store_name = None
    /\ client_or_connection = None
    /\ indices = {}
    /\ docs = [i \in DictIndexNames |-> {}]
    /\ crf_docs = {}
    /\ live_index \in {None, EntitiesIndex}
    /\ last = Outcome("none", NoArgs, NoExc, None, <<>>)
    /\ NothingToSync
    /\ in_flight = NothingInFlight
    /\ ServerNotStarted

NextFrame ==
    \/ Idle /\ DataStore_init
    \/ Idle /\ create
    \/ Idle /\ delete
    \/ Idle /\ exists
    \/ Idle /\ get_crf_data_for_entity_name("city", NoKwargs)
    \/ Idle /\ \E r \in {x \in CrfRecords : x.entity_name = "city"} : update_entity_crf_data(r)
    \/ Idle /\ get_entity_dictionary("city", NoKwargs)
    \/ Idle /\ get_entity_data("city", ValuesNone, NoKwargs)
    \/ Idle /\ \E r \in {Record("Mumbai", {"mumbai", "bombay"}, "en"), Record("Pune", {"pune"}, "en")} :
           add_entity_data("city", {r})
    \/ Idle /\ update_entity_data("city", {[value |-> "Mumbai", variants |-> {"bombay"}]}, "en")
    \/ Idle /\ delete_entity_data_by_values("city", ValuesList({"Mumbai"}))
    \/ Idle /\ delete_entity("city")
    \/ Idle /\ \E files \in SourceFiles : populate(files)
    \/ Idle /\ restart_without_crf
    \/ resolved_write

SpecFrame == InitFrame /\ [][NextFrame]_vars

\* the same operations on a cluster that already holds dictionary indices
InitStoreName ==
    /\ CHATBOT_NER_DATASTORE \in FrameConfigs
    /\ pc = "new"
    /\ engine = None
    /\ connection_settings = EmptyDict
    /\ store_name = None
    /\ client_or_connection = None
    /\ indices \in SUBSET DictIndexNames
    /\ docs = [i \in DictIndexNames |-> {}]
    /\ crf_docs = {}
    /\ live_index \in {None, EntitiesIndex}
    /\ last = Outcome("none", NoArgs, NoExc, None, <<>>)
    /\ NothingToSync
    /\ in_flight = NothingInFlight
    /\ ServerNotStarted

SpecStoreName == InitStoreName /\ [][NextFrame]_vars

(***************************************************************************)
(* transfer_entities_elastic_search: copies entities to the cluster of     *)
(* another environment.  The method reads the engine of the instance and   *)
(* the configuration; it neither looks at the connection handle nor opens  *)
(* one.  elastic_search.connect.get_es_url and elastic_search.transfer are *)
(* outside the sources at hand: the first answers with a URL or with None, *)
(* the second is seen through the calls made to it.                        *)
(***************************************************************************)
CONNECTION_URL == "connection_url"
DESTINATION_URL == "destination_url"
ConfiguredSourceUrl == "http://es.staging:9200"
ConfiguredDestinationUrl == "http://es.production:9200"
DiscoveredUrl == "http://es.discovered:9200"

\* elastic_search.connect.get_es_url(): the call and what it returned
DiscoveryCall(url) ==
    [fn |-> "get_es_url", index |-> None, status |-> IF url = None THEN 404 ELSE 200,
     url |-> url]
\* ESTransfer(source, destination).transfer_specific_entities(list_of_entities)
TransferCall(source, destination, list_of_entities) ==
    [fn |-> "transfer_specific_entities", index |-> None, status |-> 200,
     source |-> source, destination |-> destination,
     list_of_entities |-> list_of_entities]

\* a slip: the engine of the instance is not looked at
TransferEngineCheckSkipped(eng) == NoExc

\* `if self._engine != ELASTICSEARCH: raise NonESEngineTransferException`
TransferEngineCheck(eng) ==
    IF eng # ELASTICSEARCH THEN Exc(NonESEngineTransferException, "") ELSE NoExc

\* a slip: the configured connection URL is not used
TransferSourceUrlDiscoveredOnly(configured, discovered) == discovered

\* es_url: the configured connection URL, else what get_es_url() returned
TransferSourceUrl(configured, discovered) ==
    IF configured # None THEN configured ELSE discovered

\* the body of transfer_entities_elastic_search(entity_list); discovered is
\* what get_es_url() returns if it is called
TransferBody(entity_list, discovered) ==
    LET chk == TransferEngineCheck(engine)
        settings == CHATBOT_NER_DATASTORE.engines[engine]
        configured == DictGet(settings, CONNECTION_URL, None)
        lookup == IF configured = None THEN <<DiscoveryCall(discovered)>> ELSE <<>>
        es_url == TransferSourceUrl(configured, discovered)
        destination == DictGet(settings, DESTINATION_URL, None)
    IN  IF chk.type # "none" THEN Same(chk, None, <<>>)
        ELSE IF ~HasSettings(CHATBOT_NER_DATASTORE, engine)
        THEN Same(Exc("AttributeError", "get"), None, <<>>)
        ELSE IF es_url = None
        THEN Same(Exc(DataStoreSettingsImproperlyConfiguredException, ""), None, lookup)
        ELSE Same(NoExc, None,
                  lookup \o <<TransferCall(es_url, destination, entity_list)>>)

\* what get_es_url() can return when it is called
DiscoveryAnswers ==
    IF /\ engine = ELASTICSEARCH
       /\ HasSettings(CHATBOT_NER_DATASTORE, engine)
       /\ CONNECTION_URL \notin DOMAIN CHATBOT_NER_DATASTORE.engines[engine]
    THEN {None, DiscoveredUrl}
    ELSE {None}

\* transfer_entities_elastic_search(entity_list), on an instance whose
\* __init__ has assigned the engine; the method has no
\* `if self._client_or_connection is None` step
transfer_entities_elastic_search(entity_list) ==
    /\ pc # "new"
    /\ \E discovered \in DiscoveryAnswers :
        LET b == TransferBody(entity_list, discovered)
        IN  last' = Outcome("transfer_entities_elastic_search",
                            [entity |-> None, entity_list |-> entity_list],
                            b.exc, b.result, b.calls)
    /\ UNCHANGED <<CHATBOT_NER_DATASTORE, pc, engine, connection_settings, store_name,
                   client_or_connection, indices, docs, crf_docs, live_index>>
    /\ UNCHANGED sync_vars
    /\ UNCHANGED process_vars

(***************************************************************************)
(* The specification of the transfer, over configurations with and without *)
(* the two URLs, for the search engine and for another engine.             *)
(***************************************************************************)
TransferUrls ==
    [k \in {CONNECTION_URL, DESTINATION_URL} |->
        IF k = CONNECTION_URL THEN ConfiguredSourceUrl ELSE ConfiguredDestinationUrl]
TransferSettings ==
    {[k \in {ELASTICSEARCH_INDEX_NAME, ELASTICSEARCH_DOC_TYPE} \cup K |->
         IF k \in K THEN TransferUrls[k] ELSE SettingValue[k]] :
       K \in SUBSET DOMAIN TransferUrls}
TransferConfigs ==
    {[engine |-> e, engines |-> [n \in {e} |-> st]] :
        e \in {ELASTICSEARCH, "mysql"}, st \in TransferSettings}
    \cup {[engine |-> None, engines |-> EmptyDict]}
EntityLists == {<<>>, <<"city">>, <<"brand">>, <<"city", "brand">>}

InitTransfer ==
    /\ CHATBOT_NER_DATASTORE \in TransferConfigs
    /\ pc = "new"
    /\ engine = None
    /\ connection_settings = EmptyDict
    /\ store_name = None
    /\ client_or_connection = None
    /\ indices = {}
    /\ docs = [i \in DictIndexNames |-> {}]
    /\ crf_docs = {}
    /\ live_index = None
    /\ last = Outcome("none", NoArgs, NoExc, None, <<>>)
    /\ NothingToSync
    /\ in_flight = NothingInFlight
    /\ ServerNotStarted

NextTransfer ==
    \/ DataStore_init
    \/ create
    \/ delete
    \/ exists
    \/ \E l \in EntityLists : transfer_entities_elastic_search(l)

SpecTransfer == InitTransfer /\ [][NextTransfer]_vars

(***************************************************************************)
(* The specification of the query operations with their keyword arguments, *)
(* over configurations with and without a request timeout.                 *)
(***************************************************************************)
\* a request timeout of the settings, and one a caller asks for
SettingsRequestTimeout == 30
CallerRequestTimeout == 5
QuerySettings ==
    {SettingValue,
     [k \in DOMAIN SettingValue \cup {REQUEST_TIMEOUT} |->
         IF k = REQUEST_TIMEOUT THEN SettingsRequestTimeout ELSE SettingValue[k]]}
QueryConfigs ==
    {[engine |-> ELASTICSEARCH, engines |-> [n \in {ELASTICSEARCH} |-> st]] :
        st \in QuerySettings}
\* the keyword arguments the callers give: none, a request timeout, or an
\* option of the search API
QueryKwargs ==
    {NoKwargs,
     [k \in {REQUEST_TIMEOUT} |-> CallerRequestTimeout],
     [k \in {"preference"} |-> "_local"]}

InitQuery ==
    /\ CHATBOT_NER_DATASTORE \in QueryConfigs
    /\ pc = "new"
    /\ engine = None
    /\ connection_settings = EmptyDict
    /\ store_name = None
    /\ client_or_connection = None
    /\ indices = {}
    /\ docs = [i \in DictIndexNames |-> {}]
    /\ crf_docs = {}
    /\ live_index = None
    /\ last = Outcome("none", NoArgs, NoExc, None, <<>>)
    /\ NothingToSync
    /\ in_flight = NothingInFlight
    /\ ServerNotStarted

NextQuery ==
    \/ DataStore_init
    \/ create
    \/ \E e \in Entities, kw \in QueryKwargs : get_entity_dictionary(e, kw)
    \/ \E e \in Entities, t \in Texts, kw \in QueryKwargs :
           get_similar_dictionary(e, t, None, kw)
    \/ \E e \in Entities, kw \in QueryKwargs : get_entity_unique_values(e, kw)
    \/ \E e \in Entities, kw \in QueryKwargs : get_entity_supported_languages(e, kw)
    \/ \E e \in Entities, kw \in QueryKwargs : get_entity_data(e, ValuesNone, kw)
    \/ \E e \in Entities, kw \in QueryKwargs : get_crf_data_for_entity_name(e, kw)

SpecQuery == InitQuery /\ [][NextQuery]_vars

(***************************************************************************)
(* JSON texts, as the sequence of their tokens: json.dumps of a list of    *)
(* strings and json.loads of a text.                                       *)
(***************************************************************************)
Tok(t, chars) == [tok |-> t, chars |-> chars]
\* the empty text
EmptyText == <<>>
\* json.dumps(l), l a list of strings
JsonDumps(l) ==
    IF Len(l) = 0
    THEN <<Tok("[", ""), Tok("]", "")>>
    ELSE <<Tok("[", "")>>
         \o [i \in 1..(2 * Len(l) - 1) |->
                IF i % 2 = 1 THEN Tok("string", l[(i + 1) \div 2]) ELSE Tok(",", "")]
         \o <<Tok("]", "")>>
\* whether json.loads(t) returns a list of strings (it raises ValueError
\* for any other text of the model)
JsonIsList(t) ==
    /\ Len(t) >= 2
    /\ t[1].tok = "["
    /\ t[Len(t)].tok = "]"
    /\ Len(t) = 2 \/ Len(t) % 2 = 1
    /\ \A i \in 2..(Len(t) - 1) :
          t[i].tok = IF i % 2 = 0 THEN "string" ELSE ","
\* json.loads(t) of such a text
JsonLoads(t) == [i \in 1..((Len(t) - 1) \div 2) |-> t[2 * i].chars]

(***************************************************************************)
(* tornadoserver/endpoints/ner.py: NerHandler.  The detection itself       *)
(* (ner_v1.chatbot.tag_message.run_ner) is outside the sources at hand: it *)
(* is seen through the call made to it, and its output names the entities  *)
(* and the message it was run on.                                          *)
(***************************************************************************)
\* the messages of the requests; "" is a missing or empty argument, and
\* "vin~a del mar" stands for the text with an n with tilde
Messages == {"", "hola santiago", "vin~a del mar", "pizza%20hut"}
\* unidecode(message): the ASCII transliteration
Unidecode(message) ==
    IF message = "vin~a del mar" THEN "vina del mar" ELSE message
\* urllib.parse.unquote(message): %xx escapes replaced
UrlUnquote(message) ==
    IF message = "pizza%20hut" THEN "pizza hut" ELSE message
\* the `entities` arguments of the requests: none, two lists, a broken text
EntitiesArguments ==
    {EmptyText, JsonDumps(<<"city">>), JsonDumps(<<"ciudades_chile", "restaurant">>),
     <<Tok("[", ""), Tok("string", "city")>>}

\* run_ner(entities=entities, message=message)
RunNerCall(entities, message) ==
    [fn |-> "run_ner", index |-> None, status |-> 200,
     entities |-> entities, message |-> message]
RunNerOutput(entities, message) == [entities |-> entities, message |-> message]
Response(status, body) == [status |-> status, body |-> body]

\* get_entity_data, line 18: `entities = ['ciudades_chile', 'restaurant']`
DetectedEntities(entities) == <<"ciudades_chile", "restaurant">>

\* what run_ner is in the build: a coroutine function, which the handler can
\* await, or a plain function that returns its output, as some_script.py
\* calls it
RunNerKinds == {"coroutine", "function"}
\* the largest number of requests that await run_ner at a time
MaxRequests == 2

\* `await run_ner(...)` with a run_ner that returned a dict
AwaitOfDict == Exc("TypeError", "object dict can't be used in 'await' expression")

\* NerHandler.get_entity_data(message, entities), run to its end: run_ner
\* is called; its output is awaited and finishes the response, or the await
\* of a plain output raises
NerGetEntityData(message, entities, kind) ==
    LET es == DetectedEntities(entities)
        m  == UrlUnquote(message)
    IN  IF kind = "function"
        THEN [exc |-> AwaitOfDict, result |-> Response(500, None),
              calls |-> <<RunNerCall(es, m)>>]
        ELSE [exc |-> NoExc,
              result |-> Response(200, RunNerOutput(es, m)),
              calls |-> <<RunNerCall(es, m)>>]

\* a slip: the handler lets a request without a message through
MessageMissingNever(message_arg) == FALSE
\* `if message == ''`
MessageMissing(message_arg) == message_arg = ""
\* NerHandler.get(): message_arg and entities_arg are what get_argument
\* returns, '' for a missing argument
NerGet(message_arg, entities_arg, kind) ==
    IF MessageMissing(message_arg)
    THEN [exc |-> Exc("HTTPError", "400"), result |-> Response(400, None), calls |-> <<>>]
    ELSE IF entities_arg # EmptyText /\ ~JsonIsList(entities_arg)
    THEN [exc |-> Exc("ValueError", "json"), result |-> Response(500, None), calls |-> <<>>]
    ELSE NerGetEntityData(Unidecode(message_arg),
                          IF entities_arg # EmptyText THEN JsonLoads(entities_arg)
                          ELSE entities_arg,
                          kind)

\* the requests whose coroutine is suspended at `await run_ner(...)`
Awaiting(requests) ==
    IF requests = <<>> THEN NothingInFlight
    ELSE [op |-> "NerHandler.get", requests |-> requests]
AwaitingRequests ==
    IF in_flight.op = "NerHandler.get" THEN in_flight.requests ELSE <<>>
NerArgs(message_arg, entities_arg) ==
    [entity |-> None, message |-> message_arg, entities |-> entities_arg]

\* NerHandler.get(), up to where the handler gives the loop its turn back:
\* the request is answered at once when get() raises, when the await of a
\* plain output raises and when run_ner completes without waiting; else
\* run_ner has been called and the coroutine waits for it
NerHandler_get(message_arg, entities_arg) ==
    /\ in_flight.op \in {"none", "NerHandler.get"}
    /\ LET r    == NerGet(message_arg, entities_arg, run_ner)
           args == NerArgs(message_arg, entities_arg)
       IN  \E waits \in BOOLEAN :
             IF waits /\ r.exc = NoExc
             THEN /\ Len(AwaitingRequests) < MaxRequests
                  /\ in_flight' = Awaiting(Append(AwaitingRequests,
                                                  [args |-> args, outcome |-> r]))
                  /\ UNCHANGED last
             ELSE /\ last' = Outcome("NerHandler.get", args, r.exc, r.result, r.calls)
                  /\ UNCHANGED in_flight
    /\ UNCHANGED <<CHATBOT_NER_DATASTORE, pc, engine, connection_settings, store_name,
                   client_or_connection, indices, docs, crf_docs, live_index>>
    /\ UNCHANGED sync_vars
    /\ UNCHANGED <<now, http_server, io_loop>>

\* run_ner has answered the i-th waiting request: self.finish(output)
NerHandler_finish(i) ==
    /\ i \in DOMAIN AwaitingRequests
    /\ LET r == AwaitingRequests[i]
       IN  last' = Outcome("NerHandler.get", r.args, r.outcome.exc, r.outcome.result,
                           r.outcome.calls)
    /\ in_flight' = Awaiting([j \in 1..(Len(AwaitingRequests) - 1) |->
                                IF j < i THEN AwaitingRequests[j]
                                ELSE AwaitingRequests[j + 1]])
    /\ UNCHANGED <<CHATBOT_NER_DATASTORE, pc, engine, connection_settings, store_name,
                   client_or_connection, indices, docs, crf_docs, live_index>>
    /\ UNCHANGED sync_vars
    /\ UNCHANGED <<now, http_server, io_loop>>

(***************************************************************************)
(* data/get_external_entities.py: the download of the entity data from the *)
(* object storage.  A path or a key is the sequence of its components, the *)
(* text that "/" joins: "entity_data/" is <<"entity_data", "">>.  The S3   *)
(* client (boto3) and the os module are modelled by what the code relies   *)
(* on: a listing in key order cut into pages, makedirs, download_file.     *)
(***************************************************************************)
\* the largest number of keys in a page of a listing
PageSize == 2

\* s.endswith('/')
EndsWithSlash(p) == Len(p) >= 2 /\ p[Len(p)] = ""
\* download_dir: `if not path.endswith('/'): path += '/'`
WithSlash(path) == IF EndsWithSlash(path) THEN path ELSE path \o <<"">>
\* key.startswith(prefix), for a prefix that ends with "/"
StartsWith(key, prefix) ==
    /\ Len(key) >= Len(prefix)
    /\ SubSeq(key, 1, Len(prefix) - 1) = SubSeq(prefix, 1, Len(prefix) - 1)
\* key['Key'][len(path):], for a path that ends with "/"
RelPath(key, path) == SubSeq(key, Len(path), Len(key))
\* os.path.join(a, b)
OsPathJoin(a, b) ==
    IF Len(b) >= 2 /\ b[1] = "" THEN b
    ELSE IF a = <<"">> THEN b
    ELSE IF EndsWithSlash(a) THEN SubSeq(a, 1, Len(a) - 1) \o b
    ELSE a \o b
\* os.path.dirname(p)
OsPathDirname(p) ==
    IF Len(p) = 1 THEN <<"">>
    ELSE IF Len(p) = 2 /\ p[1] = "" THEN <<"", "">>
    ELSE SubSeq(p, 1, Len(p) - 1)

\* errno values
EEXIST == 17
ENOENT == 2
ENOTDIR == 20
\* the directories os.makedirs(p) makes sure of: p and its ancestors
Ancestors(p) == {SubSeq(p, 1, i) : i \in 1..Len(p)}
\* os.makedirs(p): the errno it fails with (0: none) and the directories
OsMakedirs(dirs, files, p) ==
    IF p = <<"">> THEN [errno |-> ENOENT, dirs |-> dirs]
    ELSE IF p \in dirs \cup files THEN [errno |-> EEXIST, dirs |-> dirs]
    ELSE IF Ancestors(p) \cap files # {} THEN [errno |-> ENOTDIR, dirs |-> dirs]
    ELSE [errno |-> 0, dirs |-> dirs \cup Ancestors(p)]

\* assert_dir_exists: `if e.errno != errno.EEXIST: raise`
AssertDirExistsRaises(errno) == errno # 0 /\ errno # EEXIST

\* client.download_file(bucket, key, local): writes the local file, which
\* takes a file name (not '', not a name that ends with "/") and an
\* existing parent directory
S3DownloadFile(dirs, files, local) ==
    LET ok == /\ local # <<"">>
              /\ ~EndsWithSlash(local)
              /\ OsPathDirname(local) \in dirs \cup {<<"">>}
              /\ local \notin dirs
    IN  [ok |-> ok, files |-> IF ok THEN files \cup {local} ELSE files]

MakedirsCall(p, errno) ==
    [fn |-> "makedirs", index |-> None, status |-> errno, path |-> p]
DownloadCall(key, local, parent_exists, ok) ==
    [fn |-> "download_file", index |-> None, status |-> IF ok THEN 200 ELSE 500,
     key |-> key, local |-> local, parent_exists |-> parent_exists]

\* the keys of the model's buckets, in the order a listing gives them
KeyPool ==
    << <<"entity_data", "">>,
       <<"entity_data", "city.csv">>,
       <<"entity_data", "cl", "">>,
       <<"entity_data", "cl", "restaurant.csv">>,
       <<"entity_data_old", "city.csv">> >>
KeysOf(pool) == {pool[i] : i \in DOMAIN pool}
IsListed(bkt, prefix, key) == key \in bkt /\ StartsWith(key, prefix)
\* list_objects_v2(Bucket, Prefix): the keys under the prefix, in order
ListObjectsV2(bkt, prefix) ==
    SelectSeq(KeyPool, LAMBDA key : IsListed(bkt, prefix, key))
\* paginator.paginate(...): the pages of the listing; a listing without
\* keys is one page that has no 'Contents'
Paginate(keys) ==
    IF keys = <<>> THEN << [KeyCount |-> 0] >>
    ELSE [j \in 1..((Len(keys) + PageSize - 1) \div PageSize) |->
            LET c == SubSeq(keys, (j - 1) * PageSize + 1,
                            IF j * PageSize < Len(keys) THEN j * PageSize ELSE Len(keys))
            IN  [KeyCount |-> Len(c), Contents |-> c]]

\* a slip: the keys that end with "/" are downloaded too
SkipsKeyNever(key) == FALSE

\* download_dir: `if not key['Key'].endswith('/')`, negated
SkipsKey(key) == EndsWithSlash(key)

\* download_dir, the body of the inner loop for one key; st is the local
\* tree, the calls made and the exception raised so far
DownloadKey(key, path, target, st) ==
    LET rel_path == RelPath(key, path)
        local_file_path == OsPathJoin(target, rel_path)
        local_file_dir == OsPathDirname(local_file_path)
        mk == OsMakedirs(st.dirs, st.files, local_file_dir)
        mkcall == MakedirsCall(local_file_dir, mk.errno)
        dl == S3DownloadFile(mk.dirs, st.files, local_file_path)
        dlcall == DownloadCall(key, local_file_path, local_file_dir \in mk.dirs, dl.ok)
    IN  IF SkipsKey(key) THEN st
        ELSE IF AssertDirExistsRaises(mk.errno)
        THEN [st EXCEPT !.calls = @ \o <<mkcall>>, !.exc = Exc("OSError", "makedirs")]
        ELSE [dirs |-> mk.dirs, files |-> dl.files,
              calls |-> st.calls \o <<mkcall, dlcall>>,
              exc |-> IF dl.ok THEN NoExc ELSE Exc("OSError", "download_file")]

RECURSIVE DownloadKeys(_, _, _, _, _)
\* the inner loop, from the i-th key of a page on
DownloadKeys(keys, i, path, target, st) ==
    IF i > Len(keys) \/ st.exc # NoExc THEN st
    ELSE DownloadKeys(keys, i + 1, path, target, DownloadKey(keys[i], path, target, st))

RECURSIVE DownloadPages(_, _, _, _, _)
\* the outer loop, from the j-th page on
DownloadPages(pages, j, path, target, st) ==
    IF j > Len(pages) \/ st.exc # NoExc THEN st
    ELSE IF "Contents" \notin DOMAIN pages[j]
    THEN [st EXCEPT !.exc = Exc("KeyError", "Contents")]
    ELSE DownloadPages(pages, j + 1, path, target,
                       DownloadKeys(pages[j].Contents, 1, path, target, st))

\* download_dir(client, bucket, path, target)
download_dir(path, target) ==
    /\ LET prefix == WithSlash(path)
           pages == Paginate(ListObjectsV2(bucket, prefix))
           st == DownloadPages(pages, 1, prefix, target,
                               [dirs |-> local_dirs, files |-> local_files,
                                calls |-> <<>>, exc |-> NoExc])
       IN  /\ local_dirs' = st.dirs
           /\ local_files' = st.files
           /\ last' = Outcome("download_dir",
                              [entity |-> None, path |-> path, target |-> target],
                              st.exc, None, st.calls)
    /\ UNCHANGED <<CHATBOT_NER_DATASTORE, pc, engine, connection_settings, store_name,
                   client_or_connection, indices, docs, crf_docs, live_index, bucket,
                   run_ner>>
    /\ UNCHANGED process_vars

(***************************************************************************)
(* external_api.api.entity_data_list_view, as its test pins it down: the   *)
(* view answers with the JSON text of what os.listdir returns for the      *)
(* entity data directory.                                                  *)
(***************************************************************************)
\* the file names of the test
ListedNames == {"sourceUno.csv", "source_dos.csv", "source__tres.csv"}
\* what os.listdir can return: the names of a directory, in any order
DirectoryListings ==
    {<<>>}
    \cup {<<x>> : x \in ListedNames}
    \cup {l \in ListedNames \X ListedNames : l[1] # l[2]}
    \cup {l \in ListedNames \X ListedNames \X ListedNames :
             l[1] # l[2] /\ l[1] # l[3] /\ l[2] # l[3]}

\* a slip: the last name of the listing is left out
EntityDataListViewContentTruncated(listing) ==
    JsonDumps(SubSeq(listing, 1, Len(listing) - 1))

\* the content of the response
EntityDataListViewContent(listing) == JsonDumps(listing)

\* entity_data_list_view(request), listing being what os.listdir returns
entity_data_list_view(listing) ==
    /\ last' = Outcome("entity_data_list_view",
                       [entity |-> None, listing |-> listing], NoExc,
                       Response(200, EntityDataListViewContent(listing)),
                       <<Call("os.listdir", None, 200)>>)
    /\ UNCHANGED <<CHATBOT_NER_DATASTORE, pc, engine, connection_settings, store_name,
                   client_or_connection, indices, docs, crf_docs, live_index>>
    /\ UNCHANGED sync_vars
    /\ UNCHANGED process_vars

(***************************************************************************)
(* The specification of the services around the store: the NER endpoint,   *)
(* the entity-data list view and the download of the entity data, over     *)
(* the buckets made of the keys of the model and the local trees that      *)
(* earlier downloads leave.  The datastore plays no part in it.            *)
(***************************************************************************)
SyncPaths == {<<"entity_data">>, <<"entity_data", "">>}
SyncTarget == <<"data", "entity_data">>
LocalTrees ==
    {{}} \cup {Ancestors(p) : p \in {<<"data">>, SyncTarget, SyncTarget \o <<"cl">>}}

InitServices ==
    /\ CHATBOT_NER_DATASTORE =
           [engine |-> ELASTICSEARCH, engines |-> [n \in {ELASTICSEARCH} |-> SettingValue]]
    /\ pc = "new"
    /\ engine = None
    /\ connection_settings = EmptyDict
    /\ store_name = None
    /\ client_or_connection = None
    /\ indices = {}
    /\ docs = [i \in DictIndexNames |-> {}]
    /\ crf_docs = {}
    /\ live_index = None
    /\ last = Outcome("none", NoArgs, NoExc, None, <<>>)
    /\ bucket \in SUBSET KeysOf(KeyPool)
    /\ local_dirs \in LocalTrees
    /\ local_files = {}
    /\ run_ner = "coroutine"
    /\ in_flight = NothingInFlight
    /\ ServerNotStarted

NextServices ==
    \/ \E l \in DirectoryListings : entity_data_list_view(l)
    \/ \E path \in SyncPaths : download_dir(path, SyncTarget)

SpecServices == InitServices /\ [][NextServices]_vars

(***************************************************************************)
(* The specification of the NER endpoint: requests of the model's messages *)
(* and entities arguments, answered at once or while others wait for       *)
(* run_ner, next to the list view and a download, for both builds of       *)
(* run_ner.                                                                *)
(***************************************************************************)
InitNer ==
    /\ CHATBOT_NER_DATASTORE =
           [engine |-> ELASTICSEARCH, engines |-> [n \in {ELASTICSEARCH} |-> SettingValue]]
    /\ pc = "new"
    /\ engine = None
    /\ connection_settings = EmptyDict
    /\ store_name = None
    /\ client_or_connection = None
    /\ indices = {}
    /\ docs = [i \in DictIndexNames |-> {}]
    /\ crf_docs = {}
    /\ live_index = None
    /\ last = Outcome("none", NoArgs, NoExc, None, <<>>)
    /\ bucket = {<<"entity_data", "city.csv">>}
    /\ local_dirs = {}
    /\ local_files = {}
    /\ run_ner \in RunNerKinds
    /\ in_flight = NothingInFlight
    /\ ServerNotStarted

NextNer ==
    \/ \E m \in Messages, e \in EntitiesArguments : NerHandler_get(m, e)
    \/ \E i \in 1..MaxRequests : NerHandler_finish(i)
    \/ \E l \in DirectoryListings : entity_data_list_view(l)
    \/ download_dir(<<"entity_data">>, SyncTarget)

SpecNer == InitNer /\ [][NextNer]_vars

(***************************************************************************)
(* tornadoserver/server.py: the HTTP server process and its shutdown.      *)
(* The clock counts whole seconds.  The IO loop runs one queued callback   *)
(* or one due timeout at a time; a signal handler only queues a callback.  *)
(***************************************************************************)
WAIT_SECONDS_BEFORE_SHUTDOWN == 2
\* the largest number of signals the process is sent
MaxSignals == 2
\* the clock runs to this time at least, and further while a timeout is ahead
MaxClock == 3

Signals == {"SIGTERM", "SIGINT"}
ServerFrame == UNCHANGED <<CHATBOT_NER_DATASTORE, pc, engine, connection_settings,
                           store_name, client_or_connection, indices, docs, crf_docs,
                           live_index, last, bucket, local_dirs, local_files, run_ner,
                           in_flight>>

\* io_loop.add_callback_from_signal(callback)
AddCallbackFromSignal(loop, callback) ==
    [loop EXCEPT !.callbacks = Append(@, callback)]
\* io_loop.stop()
IoLoopStop(loop, t) ==
    IF loop.state = "running" THEN [loop EXCEPT !.state = "stopped", !.stopped_at = t]
    ELSE loop
\* server.stop(): the listening sockets are closed; a second call finds them closed
HttpServerStop(server, t) ==
    IF server.state = "listening" THEN [state |-> "stopped", stopped_at |-> t]
    ELSE server

\* stop_loop never polls again: the loop is left without a timeout
StopLoopPollDropped(timeouts, t, deadline) == timeouts
\* io_loop.add_timeout(now + 1, stop_loop, deadline)
StopLoopPoll(timeouts, t, deadline) ==
    Append(timeouts, [when |-> t + 1, deadline |-> deadline])
\* stop_loop gives up the last second of the wait
StopLoopWaitsShort(t, deadline) == t + 1 < deadline
\* `if now < deadline`
StopLoopWaits(t, deadline) == t < deadline
\* stop_loop(deadline), run at time t
StopLoop(loop, t, deadline) ==
    IF StopLoopWaits(t, deadline)
    THEN [loop EXCEPT !.timeouts = StopLoopPoll(@, t, deadline)]
    ELSE IoLoopStop(loop, t)

RemoveAt(seq, i) == [j \in 1..(Len(seq) - 1) |-> IF j < i THEN seq[j] ELSE seq[j + 1]]

\* main(): listen, install the two handlers, start the loop
main ==
    /\ io_loop.state = "none"
    /\ http_server' = [http_server EXCEPT !.state = "listening"]
    /\ io_loop' = [io_loop EXCEPT !.state = "running"]
    /\ UNCHANGED now
    /\ ServerFrame

\* sig_handler(server, sig, frame): the handler queues shutdown and returns
sig_handler(sig) ==
    /\ io_loop.state = "running"
    /\ Len(io_loop.callbacks) + Len(io_loop.timeouts) < MaxSignals
    /\ io_loop' = AddCallbackFromSignal(io_loop, [fn |-> "shutdown", sig |-> sig])
    /\ UNCHANGED <<now, http_server>>
    /\ ServerFrame

\* the loop runs its next callback, shutdown(): server.stop(), then the first
\* stop_loop with the deadline WAIT_SECONDS_BEFORE_SHUTDOWN from now
run_callback ==
    /\ io_loop.state = "running"
    /\ io_loop.callbacks # <<>>
    /\ http_server' = HttpServerStop(http_server, now)
    /\ io_loop' = StopLoop([io_loop EXCEPT !.callbacks = Tail(@)], now,
                           now + WAIT_SECONDS_BEFORE_SHUTDOWN)
    /\ UNCHANGED now
    /\ ServerFrame

\* the loop runs a timeout that is due: stop_loop(deadline)
run_timeout(i) ==
    /\ io_loop.state = "running"
    /\ i \in DOMAIN io_loop.timeouts
    /\ io_loop.timeouts[i].when <= now
    /\ io_loop' = StopLoop([io_loop EXCEPT !.timeouts = RemoveAt(@, i)], now,
                           io_loop.timeouts[i].deadline)
    /\ UNCHANGED <<now, http_server>>
    /\ ServerFrame

\* a second passes
tick ==
    /\ \/ now < MaxClock
       \/ /\ io_loop.state = "running"
          /\ \E i \in DOMAIN io_loop.timeouts : now < io_loop.timeouts[i].when
    /\ now' = now + 1
    /\ UNCHANGED <<http_server, io_loop>>
    /\ ServerFrame

\* the process before main(): nothing of the store or of the download is touched
InitServer ==
    /\ InitServices
    /\ bucket = {}
    /\ local_dirs = {}

NextServer ==
    \/ main
    \/ \E sig \in Signals : sig_handler(sig)
    \/ run_callback
    \/ \E i \in 1..MaxSignals : run_timeout(i)
    \/ tick

SpecServer == InitServer /\ [][NextServer]_vars

\* the loop keeps running its callbacks and its timeouts, and the clock advances
SpecServerLive ==
    /\ SpecServer
    /\ WF_vars(run_callback)
    /\ WF_vars(\E i \in 1..MaxSignals : run_timeout(i))
    /\ WF_vars(tick)

(***************************************************************************)
(* Properties.                                                             *)
(***************************************************************************)
CallFns(calls) == {calls[i].fn : i \in DOMAIN calls}
\* the backend primitives among the calls of an operation: every call but
\* the connect by which an instance without a handle got one
IsPrimitive(call) == call.fn # "connect"
Primitives(calls) == SelectSeq(calls, IsPrimitive)
CrfOps == {"get_crf_data_for_entity_name", "update_entity_crf_data"}
CrfNameConfigured == ELASTICSEARCH_CRF_DATA_INDEX_NAME \in DOMAIN connection_settings
CrfDocTypeConfigured == ELASTICSEARCH_CRF_DATA_DOC_TYPE \in DOMAIN connection_settings
DocTypeConfigured == ELASTICSEARCH_DOC_TYPE \in DOMAIN connection_settings

\* an instance whose settings name the index and every doc-type it needs
CorrectlyConfigured ==
    /\ pc = "ready"
    /\ ELASTICSEARCH_INDEX_NAME \in DOMAIN connection_settings
    /\ DocTypeConfigured
    /\ CrfNameConfigured => CrfDocTypeConfigured

\* C3: on a correctly configured store with a named index, create() never
\* raises (also when the index already exists) and exists() is true in the
\* state it leaves; delete() never raises (also when the index is absent)
\* and exists() is false in the state it leaves.
C3_CreateDeleteExists ==
    CorrectlyConfigured =>
        /\ last.op = "create" =>
            /\ last.exc = NoExc
            /\ ExistsBody(store_name).exc = NoExc
            /\ ExistsBody(store_name).result = TRUE
        /\ last.op = "delete" =>
            /\ last.exc = NoExc
            /\ ExistsBody(store_name).exc = NoExc
            /\ ExistsBody(store_name).result = FALSE

\* a second create(): the cluster answered "already exists" and it returned
C3_Witness ==
    /\ CorrectlyConfigured
    /\ last.op = "create"
    /\ last.exc = NoExc
    /\ last.calls[1].status = 400
    /\ ExistsBody(store_name).result = TRUE

\* C6 (as claimed): a CRF operation on a store without a CRF index name
\* fails with IndexNotFoundException and makes no call to the cluster,
\* whatever the other settings are.
C6_CrfWithoutIndexName ==
    (pc = "ready" /\ last.op \in CrfOps /\ ~CrfNameConfigured) =>
        /\ last.exc.type = IndexNotFoundException
        /\ Primitives(last.calls) = <<>>

\* C7 (as claimed): with a CRF index name but no CRF doc-type, a CRF
\* operation fails with IndexNotFoundException.
C7_DocTypeMissingIsIndexNotFound ==
    (pc = "ready" /\ last.op \in CrfOps /\ CrfNameConfigured /\ ~CrfDocTypeConfigured) =>
        last.exc.type = IndexNotFoundException

\* C7 (amended): with a CRF index name but no CRF doc-type, both CRF
\* operations fail with DataStoreSettingsImproperlyConfiguredException, the
\* message naming the CRF doc-type setting, before any backend primitive
\* (an instance without a handle has connected by then).
C7_DocTypeMissingIsConfigurationError ==
    (pc = "ready" /\ last.op \in CrfOps /\ CrfNameConfigured /\ ~CrfDocTypeConfigured) =>
        /\ last.exc = Exc(DataStoreSettingsImproperlyConfiguredException,
                          "ES_TRAINING_DATA_DOC_TYPE")
        /\ Primitives(last.calls) = <<>>

C7_Witness ==
    /\ pc = "ready"
    /\ last.op = "update_entity_crf_data"
    /\ CrfNameConfigured
    /\ ~CrfDocTypeConfigured
    /\ DocTypeConfigured
    /\ last.exc.type = DataStoreSettingsImproperlyConfiguredException

\* C8: create() fails with DataStoreSettingsImproperlyConfiguredException
\* naming ES_DOC_TYPE, before any call, when the dictionary doc-type is
\* missing; otherwise it provisions the dictionary index under the store
\* name, and the CRF index if and only if a CRF index name is configured,
\* failing with DataStoreSettingsImproperlyConfiguredException naming
\* ES_TRAINING_DATA_DOC_TYPE when that name is configured without its
\* doc-type.
C8_CreateProvisions ==
    (pc = "ready" /\ last.op = "create") =>
      LET calls == Primitives(last.calls)
      IN  /\ ~DocTypeConfigured =>
              /\ last.exc = Exc(DataStoreSettingsImproperlyConfiguredException, "ES_DOC_TYPE")
              /\ calls = <<>>
          /\ DocTypeConfigured =>
              /\ Len(calls) >= 1
              /\ calls[1].fn = "create_entity_index"
              /\ calls[1].index = store_name
              /\ store_name # ALL_INDICES => store_name \in indices
              /\ ~CrfNameConfigured =>
                  /\ last.exc = NoExc
                  /\ "create_crf_index" \notin CallFns(calls)
                  /\ CrfIndex \notin indices
              /\ (CrfNameConfigured /\ ~CrfDocTypeConfigured) =>
                  /\ last.exc = Exc(DataStoreSettingsImproperlyConfiguredException,
                                    "ES_TRAINING_DATA_DOC_TYPE")
                  /\ "create_crf_index" \notin CallFns(calls)
              /\ (CrfNameConfigured /\ CrfDocTypeConfigured) =>
                  /\ last.exc = NoExc
                  /\ Len(calls) = 2
                  /\ calls[2].fn = "create_crf_index"
                  /\ calls[2].index =
                         connection_settings[ELASTICSEARCH_CRF_DATA_INDEX_NAME]
                  /\ connection_settings[ELASTICSEARCH_CRF_DATA_INDEX_NAME] \in indices

\* create() has just provisioned both indices
C8_Witness ==
    /\ pc = "ready"
    /\ last.op = "create"
    /\ Len(last.calls) = 2
    /\ last.calls[1].status = 200
    /\ last.calls[2].status = 200
    /\ {EntitiesIndex, CrfIndex} \subseteq indices

\* C9: constructing the store with no engine configured, or with no
\* settings entry for the configured engine, fails with
\* DataStoreSettingsImproperlyConfiguredException, and no connection
\* attempt has been made: no call to the driver, no handle.
C9_ConstructionValidates ==
    (/\ last.op = "__init__"
     /\ \/ ConfiguredEngine(CHATBOT_NER_DATASTORE) = None
        \/ ~HasSettings(CHATBOT_NER_DATASTORE, ConfiguredEngine(CHATBOT_NER_DATASTORE))) =>
        /\ pc = "failed"
        /\ last.exc.type = DataStoreSettingsImproperlyConfiguredException
        /\ last.calls = <<>>
        /\ client_or_connection = None

\* the search engine is configured, its settings entry is not
C9_Witness ==
    /\ last.op = "__init__"
    /\ ConfiguredEngine(CHATBOT_NER_DATASTORE) = ELASTICSEARCH
    /\ ~HasSettings(CHATBOT_NER_DATASTORE, ELASTICSEARCH)
    /\ pc = "failed"

\* C10: constructing the store with a configured engine (settings present)
\* that has no implementation raises EngineNotImplementedException, for
\* every such engine name, and leaves no connection handle behind.
C10_UnimplementedEngine ==
    (/\ last.op = "__init__"
     /\ ConfiguredEngine(CHATBOT_NER_DATASTORE) \in EngineNames \ {ELASTICSEARCH}
     /\ HasSettings(CHATBOT_NER_DATASTORE, ConfiguredEngine(CHATBOT_NER_DATASTORE))) =>
        /\ pc = "failed"
        /\ last.exc.type = EngineNotImplementedException
        /\ last.calls = <<>>
        /\ client_or_connection = None

C10_Witness ==
    /\ last.op = "__init__"
    /\ ConfiguredEngine(CHATBOT_NER_DATASTORE) = "redis"
    /\ HasSettings(CHATBOT_NER_DATASTORE, "redis")
    /\ last.exc.type = EngineNotImplementedException

\* C11: ensuring the connection is idempotent.  Once the instance holds a
\* handle, no operation replaces it and no operation asks the driver for
\* another connection: the instance holds one handle, from one successful
\* connect, for the rest of its life.
C11_ConnectOnce ==
    [][client_or_connection # None =>
          /\ client_or_connection' = client_or_connection
          /\ last' # last => "connect" \notin CallFns(last'.calls)]_vars

\* an operation ran on the handle the constructor opened
C11_Witness ==
    /\ pc = "ready"
    /\ client_or_connection # None
    /\ last.op = "exists"
    /\ last.exc = NoExc
    /\ last.calls = <<Call("exists", store_name, 200)>>

\* C12 (as claimed): when the driver returns no handle, the call fails with
\* EngineConnectionException after that one attempt (no retry within the
\* call, no other call to the engine package), the handle stays absent, and
\* the next operation invoked, whichever it is, attempts the connection
\* again.
C12_ConnectionFailure ==
    /\ [](last.exc.type = EngineConnectionException =>
            /\ last.calls = <<Call("connect", None, 503)>>
            /\ client_or_connection = None)
    /\ [][(last.exc.type = EngineConnectionException /\ last' # last) =>
              /\ Len(last'.calls) >= 1
              /\ last'.calls[1].fn = "connect"]_vars

\* the driver returned no handle
C12_Witness ==
    /\ last.exc = Exc(EngineConnectionException, ELASTICSEARCH)
    /\ client_or_connection = None
    /\ store_name # None

\* what holds of the code: the failure is as C12 says, and the next
\* operation attempts the connection again unless it is
\* transfer_entities_elastic_search
C12_GuardedOperationsReconnect ==
    /\ [](last.exc.type = EngineConnectionException =>
            /\ last.calls = <<Call("connect", None, 503)>>
            /\ client_or_connection = None)
    /\ [][(/\ last.exc.type = EngineConnectionException
           /\ last' # last
           /\ last'.op # "transfer_entities_elastic_search") =>
              /\ Len(last'.calls) >= 1
              /\ last'.calls[1].fn = "connect"]_vars

\* an operation on the instance a failed connect left got the handle and
\* went on to the cluster
C12_Reconnected ==
    /\ last.op = "exists"
    /\ last.exc = NoExc
    /\ last.calls = <<Call("connect", None, 200), Call("exists", store_name, 200)>>
    /\ client_or_connection # None

\* C15 (as claimed): on a store configured with a CRF index name, once
\* delete() has returned neither the dictionary index nor the CRF index
\* that create() provisioned exists, and no CRF document is left.
C15_DeleteDestroysBothIndices ==
    (pc = "ready" /\ last.op = "delete" /\ last.exc = NoExc /\ CrfNameConfigured) =>
        /\ ~EsExists(indices, store_name)
        /\ connection_settings[ELASTICSEARCH_CRF_DATA_INDEX_NAME] \notin indices
        /\ crf_docs = {}

(***************************************************************************)
(* Properties of the transfer (SpecTransfer).                              *)
(***************************************************************************)
TransferOp == "transfer_entities_elastic_search"
TransfersStarted(calls) ==
    {i \in DOMAIN calls : calls[i].fn = "transfer_specific_entities"}
TransferSettingsOf == CHATBOT_NER_DATASTORE.engines[engine]

\* C13: a transfer on an instance whose engine is not the search engine
\* fails with NonESEngineTransferException and calls nothing: no URL is
\* looked up and no transfer is started.
C13_TransferNeedsSearchEngine ==
    (last.op = TransferOp /\ engine # ELASTICSEARCH) =>
        /\ last.exc.type = NonESEngineTransferException
        /\ last.calls = <<>>

\* a transfer was asked of an instance of another engine whose settings
\* hold both URLs
C13_Witness ==
    /\ last.op = TransferOp
    /\ engine = "mysql"
    /\ {CONNECTION_URL, DESTINATION_URL} \subseteq DOMAIN TransferSettingsOf
    /\ last.args.entity_list = <<"city">>
    /\ last.exc.type = NonESEngineTransferException

\* C14: in a transfer on the search engine, get_es_url() is consulted if
\* and only if no connection URL is configured; the transfer is started
\* from the configured connection URL when there is one and otherwise from
\* the URL get_es_url() returned; when neither gives a URL the call fails
\* with DataStoreSettingsImproperlyConfiguredException and starts no
\* transfer; the destination is the configured destination URL.
C14_TransferUrls ==
    (last.op = TransferOp /\ engine = ELASTICSEARCH) =>
        LET configured == DictGet(TransferSettingsOf, CONNECTION_URL, None)
            lookups == {i \in DOMAIN last.calls : last.calls[i].fn = "get_es_url"}
            started == TransfersStarted(last.calls)
        IN  /\ (lookups # {}) <=> (configured = None)
            /\ configured # None =>
                /\ last.exc = NoExc
                /\ \A i \in started : last.calls[i].source = configured
            /\ configured = None =>
                \A j \in lookups :
                    IF last.calls[j].url = None
                    THEN /\ last.exc.type = DataStoreSettingsImproperlyConfiguredException
                         /\ started = {}
                    ELSE /\ last.exc = NoExc
                         /\ \A i \in started : last.calls[i].source = last.calls[j].url
            /\ last.exc = NoExc =>
                /\ Cardinality(started) = 1
                /\ \A i \in started :
                    /\ last.calls[i].destination =
                           DictGet(TransferSettingsOf, DESTINATION_URL, None)
                    /\ last.calls[i].list_of_entities = last.args.entity_list

\* no connection URL is configured: the transfer started from the URL that
\* get_es_url() returned, to the configured destination
C14_Witness ==
    /\ last.op = TransferOp
    /\ engine = ELASTICSEARCH
    /\ CONNECTION_URL \notin DOMAIN TransferSettingsOf
    /\ last.exc = NoExc
    /\ last.calls = <<DiscoveryCall(DiscoveredUrl),
                      TransferCall(DiscoveredUrl, ConfiguredDestinationUrl, <<"city">>)>>

(***************************************************************************)
(* Properties of the dictionary operations (SpecData).                     *)
(***************************************************************************)
ReadOps ==
    {"get_entity_dictionary", "get_similar_dictionary", "get_entity_unique_values",
     "get_entity_supported_languages", "get_entity_data", "exists"}
ResolvingOps == {"add_entity_data", "update_entity_data", "delete_entity_data_by_values"}
LiveIndexFn == "get_current_live_index"

\* the call addresses the logical store name and the resolver was not asked
AddressedStoreName(calls) ==
    LET p == Primitives(calls)
    IN  /\ Len(p) = 1
        /\ p[1].fn # LiveIndexFn
        /\ p[1].index = store_name

\* the resolver was asked for the store name and gave `answer`, then `index`
\* was addressed
AddressedThroughResolver(calls, answer, index) ==
    LET p == Primitives(calls)
    IN  /\ Len(p) = 2
        /\ p[1] = Call(LiveIndexFn, store_name, IF answer = None THEN 404 ELSE 200)
        /\ p[2].fn # LiveIndexFn
        /\ p[2].index = index

\* a step in which a mutation issues its write, with the resolver's answer
\* held since its first call
WriteStep == in_flight.op \in ResolvingOps /\ in_flight' = NothingInFlight
\* a step in which a whole operation ran and is recorded as the last call
WholeStep(ops) ==
    /\ in_flight = NothingInFlight
    /\ in_flight' = NothingInFlight
    /\ last' # last
    /\ last'.op \in ops

\* the call got its handle and went past the checks of the configuration
Issued ==
    /\ pc = "ready"
    /\ last.exc.type # EngineConnectionException
    /\ DocTypeConfigured \/ last.op = "exists"

\* C1 (as claimed): every read operation addresses the logical store name
\* without consulting the resolver, and add_entity_data, update_entity_data,
\* delete_entity_data_by_values and delete_entity address the index the
\* resolver returns.
C1_FourMutationsResolve ==
    /\ []((Issued /\ last.op \in ReadOps) => AddressedStoreName(last.calls))
    /\ [][(WriteStep /\ in_flight.live.index # None) =>
              AddressedThroughResolver(last'.calls, in_flight.live.index,
                                       in_flight.live.index)]_vars
    /\ [][(WholeStep({"delete_entity"}) /\ Issued' /\ live_index # None) =>
              AddressedThroughResolver(last'.calls, live_index, live_index)]_vars

\* C1 (amended): every read operation, and delete_entity, address the
\* logical store name without consulting the resolver; add_entity_data,
\* update_entity_data and delete_entity_data_by_values consult the resolver
\* and address the index it returns.
C1_ThreeMutationsResolve ==
    /\ []((Issued /\ last.op \in ReadOps \cup {"delete_entity"}) =>
             AddressedStoreName(last.calls))
    /\ [][(WriteStep /\ in_flight.live.index # None) =>
              AddressedThroughResolver(last'.calls, in_flight.live.index,
                                       in_flight.live.index)]_vars

\* add_entity_data wrote to the rebuild index the pointer resolves to
C1_Witness ==
    /\ Issued
    /\ last.op = "add_entity_data"
    /\ last.exc = NoExc
    /\ store_name = EntitiesIndex
    /\ live_index = RebuildIndex
    /\ last.calls[2].index = RebuildIndex

\* C2 (as claimed): when the resolution of the live index fails,
\* add_entity_data, update_entity_data and delete_entity_data_by_values do
\* not fail because of it: they write against the logical store name.
C2_ResolutionFailureFallsBack ==
    [][(\/ WriteStep /\ in_flight.live.index = None
        \/ WholeStep(ResolvingOps) /\ Issued' /\ live_index = None) =>
          /\ last'.exc # LiveIndexFailure
          /\ AddressedThroughResolver(last'.calls, None, store_name)]_vars

\* the index the last call wrote to: the one its last call addressed
WrittenIndex == last.calls[Len(last.calls)].index

\* the last call wrote to the one dictionary index that reads of the
\* logical store name address
ReadsWrittenIndexOnly ==
    /\ last.calls # <<>>
    /\ IF store_name = ALL_INDICES
       THEN indices \cap DictIndexNames = {WrittenIndex}
       ELSE WrittenIndex = store_name

\* the last call wrote to an index that reads of the logical store name
\* address
ReadsWrittenIndex ==
    /\ last.calls # <<>>
    /\ WrittenIndex \in Addressed(indices, store_name)

\* get_entity_data(entity_name, values) in this state returns no record
GetsNothing(entity_name, values) ==
    LET g == GetEntityDataBody(store_name, entity_name, values, NoKwargs)
    IN  g.exc = NoExc /\ g.result = {}

\* C4 (as claimed): whatever the live pointer resolves to, once
\* delete_entity_data_by_values(e, values) has returned on a store whose
\* index exists, get_entity_data(e, values) returns an empty result (values
\* a list, or None for every record of e).
C4_DeleteThenGetEmpty ==
    (/\ pc = "ready"
     /\ last.op = "delete_entity_data_by_values"
     /\ last.exc = NoExc
     /\ EsExists(indices, store_name)) =>
        GetsNothing(last.args.entity, last.args.values)

\* C4 (amended): the same, when the index the resolver gave the delete is
\* the one index that reads of the logical store name address.
C4_DeleteThenGetEmptyOnLiveIndex ==
    (/\ pc = "ready"
     /\ last.op = "delete_entity_data_by_values"
     /\ last.exc = NoExc
     /\ ReadsWrittenIndexOnly) =>
        GetsNothing(last.args.entity, last.args.values)

\* a delete of one value that left another value of the entity in place
C4_Witness ==
    /\ pc = "ready"
    /\ last.op = "delete_entity_data_by_values"
    /\ last.exc = NoExc
    /\ ReadsWrittenIndexOnly
    /\ last.args = [entity |-> "city", values |-> ValuesList({"Mumbai"})]
    /\ GetsNothing("city", ValuesList({"Mumbai"}))
    /\ ~GetsNothing("city", ValuesList({"Pune"}))

\* get_entity_data(entity_name, [r.value]) in this state returns a record
\* with the variants and the language of r
GetsRecord(entity_name, r) ==
    LET g == GetEntityDataBody(store_name, entity_name, ValuesList({r.value}), NoKwargs)
    IN  /\ g.exc = NoExc
        /\ \E x \in g.result :
               /\ x.value = r.value
               /\ x.variants = r.variants
               /\ x.language_script = r.language_script

\* C5 (as claimed): in every state, once add_entity_data(e, [r]) has
\* returned on a store whose index exists, get_entity_data(e, [r.value])
\* returns a record whose variants and language are those of r.
C5_AddThenGet ==
    (/\ pc = "ready"
     /\ last.op = "add_entity_data"
     /\ last.exc = NoExc
     /\ EsExists(indices, store_name)) =>
        \A r \in last.args.records : GetsRecord(last.args.entity, r)

\* C5 (amended): the same, when the index the resolver gave the add is an
\* index that reads of the logical store name address.
C5_AddThenGetOnLiveIndex ==
    (/\ pc = "ready"
     /\ last.op = "add_entity_data"
     /\ last.exc = NoExc
     /\ ReadsWrittenIndex) =>
        \A r \in last.args.records : GetsRecord(last.args.entity, r)

\* a record added next to another record of the same value
C5_Witness ==
    /\ pc = "ready"
    /\ last.op = "add_entity_data"
    /\ last.exc = NoExc
    /\ ReadsWrittenIndex
    /\ last.args = [entity |-> "city", records |-> {Record("Mumbai", {"bombay"}, "hi")}]
    /\ GetsRecord("city", Record("Mumbai", {"bombay"}, "hi"))
    /\ GetsRecord("city", Record("Mumbai", {"mumbai", "bombay"}, "en"))

\* the documents of index i that delete_entity_data_by_values(e, values)
\* is to leave alone: those of other entities and, for a list of values,
\* those of e whose value is not listed
KeptByDelete(i, entity_name, values) ==
    {d \in docs[i] : ~Selected(d, entity_name, values)}

\* C16: delete_entity_data_by_values(e, values) is row-level and selective.
\* It creates and drops no index, adds no document, leaves every document
\* of another entity in place and, for a list of values, every document of
\* e whose value is not listed; with values omitted, a call that returns
\* leaves no document of e in the index it wrote to.  (A step of the
\* operation is one that records it as the last call; a repeated call
\* with the same outcome changes nothing.)
C16_DeleteByValuesIsSelective ==
    [][(last'.op = "delete_entity_data_by_values" /\ last' # last) =>
          LET e  == last'.args.entity
              vs == last'.args.values
          IN  /\ indices' = indices
              /\ crf_docs' = crf_docs
              /\ \A i \in DOMAIN docs :
                    /\ docs'[i] \subseteq docs[i]
                    /\ KeptByDelete(i, e, vs) \subseteq docs'[i]
              /\ (last'.exc = NoExc /\ vs.none /\ last'.calls # <<>>) =>
                    LET w == last'.calls[Len(last'.calls)].index
                    IN  w \in DOMAIN docs' => \A d \in docs'[w] : d.entity_data # e]_vars

\* a delete of one listed value returned and left the entity's record of
\* another value in the index it wrote to
C16_Witness ==
    /\ last.op = "delete_entity_data_by_values"
    /\ last.args = [entity |-> "city", values |-> ValuesList({"Mumbai"})]
    /\ last.exc = NoExc
    /\ live_index = EntitiesIndex
    /\ \E d \in docs[EntitiesIndex] : d.entity_data = "city" /\ d.value = "Pune"
    /\ \A d \in docs[EntitiesIndex] : d.entity_data = "city" => d.value # "Mumbai"

(***************************************************************************)
(* Properties of the query operations and their keyword arguments          *)
(* (SpecQuery).                                                            *)
(***************************************************************************)
QueryOps ==
    {"get_entity_dictionary", "get_similar_dictionary", "get_entity_unique_values",
     "get_entity_supported_languages", "get_entity_data", "get_crf_data_for_entity_name"}

\* the timeout the last call is to use: the caller's, else the settings',
\* else 20
ExpectedRequestTimeout ==
    IF REQUEST_TIMEOUT \in DOMAIN last.args.kwargs
    THEN last.args.kwargs[REQUEST_TIMEOUT]
    ELSE IF REQUEST_TIMEOUT \in DOMAIN connection_settings
    THEN connection_settings[REQUEST_TIMEOUT]
    ELSE 20

\* C17 (as claimed): every query operation on a configured store makes its
\* query call with a request timeout that is the caller's when the caller
\* gives one, otherwise the one of the settings, otherwise 20.
C17_QueryTimeout ==
    (/\ pc = "ready"
     /\ last.op \in QueryOps
     /\ DocTypeConfigured /\ CrfNameConfigured /\ CrfDocTypeConfigured) =>
        /\ Len(Primitives(last.calls)) = 1
        /\ Primitives(last.calls)[1].request_timeout = ExpectedRequestTimeout

(***************************************************************************)
(* Properties of the services (SpecNer, SpecServices).                     *)
(***************************************************************************)
\* C18 (as claimed): a request with a non-empty message and a list E of
\* entity names runs the detection once, for exactly the entities of E, on
\* the message of the request, and is answered with the output for them
\* (in the build where run_ner can be awaited).
C18_DetectsTheEntitiesAsked ==
    (/\ last.op = "NerHandler.get"
     /\ run_ner = "coroutine"
     /\ last.args.message # ""
     /\ JsonIsList(last.args.entities)) =>
        /\ Len(last.calls) = 1
        /\ last.calls[1].fn = "run_ner"
        /\ last.calls[1].entities = JsonLoads(last.args.entities)
        /\ last.result.status = 200
        /\ last.result.body.entities = JsonLoads(last.args.entities)

\* the download calls made for a key
DownloadsOf(calls, key) ==
    {i \in DOMAIN calls : calls[i].fn = "download_file" /\ calls[i].key = key}

\* C19: the download mirrors the prefix.  Every key of the bucket under the
\* prefix (whatever page lists it) that does not end with "/" is
\* downloaded exactly once, to the target followed by its path relative to
\* the prefix; a key that ends with "/" and a key outside the prefix are
\* not downloaded.  Each download is preceded by the makedirs of the parent
\* directory of the local file, which created it or found it present, and
\* that directory exists when the download is made.
C19_SyncMirrorsPrefix ==
    last.op = "download_dir" =>
        LET prefix == WithSlash(last.args.path)
            calls  == last.calls
        IN  /\ \A key \in bucket :
                  Cardinality(DownloadsOf(calls, key)) =
                      IF /\ Len(key) >= Len(prefix)
                         /\ \A n \in 1..(Len(prefix) - 1) : key[n] = prefix[n]
                         /\ key[Len(key)] # ""
                      THEN 1 ELSE 0
            /\ \A i \in DOMAIN calls :
                  calls[i].fn = "download_file" =>
                      LET local  == calls[i].local
                          parent == SubSeq(local, 1, Len(local) - 1)
                      IN  /\ calls[i].key \in bucket
                          /\ calls[i].status = 200
                          /\ local = last.args.target
                                     \o SubSeq(calls[i].key, Len(prefix), Len(calls[i].key))
                          /\ local \in local_files
                          /\ calls[i].parent_exists
                          /\ parent \in local_dirs
                          /\ i > 1
                          /\ calls[i - 1].fn = "makedirs"
                          /\ calls[i - 1].path = parent
                          /\ calls[i - 1].status \in {0, 17}

\* a download of the whole pool, over more than one page: one parent
\* directory was created, one was found present, and the two keys that end
\* with "/" were skipped
C19_Witness ==
    /\ last.op = "download_dir"
    /\ last.exc = NoExc
    /\ bucket = KeysOf(KeyPool)
    /\ Len(last.calls) = 4
    /\ last.calls[1].fn = "makedirs" /\ last.calls[1].status = 17
    /\ last.calls[2].fn = "download_file"
    /\ last.calls[2].local = <<"data", "entity_data", "city.csv">>
    /\ last.calls[3].fn = "makedirs" /\ last.calls[3].status = 0
    /\ last.calls[4].fn = "download_file"
    /\ last.calls[4].local = <<"data", "entity_data", "cl", "restaurant.csv">>

\* C20: the list view answers with status 200 and a JSON array that is the
\* listing of the directory: the same names in the same order.
C20_ListViewIsTheListing ==
    last.op = "entity_data_list_view" =>
        /\ last.result.status = 200
        /\ JsonIsList(last.result.body)
        /\ JsonLoads(last.result.body) = last.args.listing

\* the listing of the test
C20_Witness ==
    /\ last.op = "entity_data_list_view"
    /\ last.args.listing = <<"sourceUno.csv", "source_dos.csv", "source__tres.csv">>
    /\ last.result.status = 200
    /\ Len(last.result.body) = 7

(***************************************************************************)
(* Bulk population and the dictionary.                                     *)
(***************************************************************************)
\* the documents of the index that came from a source file
StoredFromSource ==
    {d \in DocsOf(indices, docs, store_name) :
        d \in UNION {SourceDocs(files) : files \in SourceFiles}}
\* the documents a populate() stored, as its bulk call reports them
PopulateStored(calls) ==
    UNION {calls[i].stored :
              i \in {j \in 1..Len(calls) : calls[j].fn = "create_all_dictionary_data"}}
\* the dictionary returned gives the value of d with every variant of d
ReturnedWithVariants(result, d) ==
    /\ d.value \in DOMAIN result
    /\ d.variants \subseteq result[d.value]
\* the dictionary returned gives the value of d among its own variants
ReturnedAmongOwnVariants(result, d) ==
    /\ d.value \in DOMAIN result
    /\ d.value \in result[d.value]

\* the step is a call of op that returned
Returns(op) == last' # last /\ last'.op = op /\ last'.exc = NoExc

\* C21: self-inclusion: for every entry stored through populate and still
\* stored, the canonical value is one of the variants get_entity_dictionary
\* returns for it.
C21_SelfInclusion ==
    [][Returns("get_entity_dictionary") =>
          \A d \in StoredFromSource' :
              d.entity_data = last'.args.entity =>
                  ReturnedAmongOwnVariants(last'.result, d)]_vars

\* C21, amended: populate stores the rows it reports as stored in the index
\* of the store name; for every entry stored through populate and still
\* stored, get_entity_dictionary returns every variant of its row, and so
\* the canonical value when the row lists it among its variants.
C21_SelfInclusionOfListedValues ==
    [][/\ Returns("populate") =>
              PopulateStored(last'.calls) \subseteq DocsOf(indices', docs', store_name')
       /\ Returns("get_entity_dictionary") =>
              \A d \in StoredFromSource' :
                  d.entity_data = last'.args.entity =>
                      /\ ReturnedWithVariants(last'.result, d)
                      /\ d.value \in d.variants =>
                             ReturnedAmongOwnVariants(last'.result, d)]_vars

\* the dictionary of "city" was read while the index held a populated row
\* that lists its value and a record added later, and gave the value among
\* its variants
C21_Witness ==
    /\ in_flight = NothingInFlight
    /\ last.op = "get_entity_dictionary"
    /\ last.exc = NoExc
    /\ last.args.entity = "city"
    /\ \E d \in StoredFromSource : d.value = "Mumbai" /\ d.value \in d.variants
    /\ \E d \in DocsOf(indices, docs, store_name) : d \notin StoredFromSource
    /\ "Mumbai" \in DOMAIN last.result
    /\ "Mumbai" \in last.result["Mumbai"]

(***************************************************************************)
(* The mutations and the rebuild process.                                  *)
(***************************************************************************)
\* the index a write of the calls was given
WrittenIndices(calls) ==
    {calls[i].index :
        i \in {j \in 1..Len(calls) :
                  calls[j].fn \in {"add_entity_data", "entity_data_update",
                                   "delete_entity_data_by_values"}}}
\* the index the write of a mutation is due to address, given the answer
\* the resolver gave: the index it named, or the store name where
\* update_entity_data falls back
DueIndex(op, live) ==
    IF live.raised /\ op = "update_entity_data" THEN store_name ELSE live.index

\* C22: resolving the live index and writing are two unlocked steps: the
\* write of a mutation goes to the index its resolver call answered with,
\* whatever the live pointer says when the write is issued, so a flip
\* between the two leaves the write on an index that is not the live one
\* (the witness).
C22_WriteUsesTheResolvedIndex ==
    [][(in_flight.op \in ResolvingMutations /\ in_flight' = NothingInFlight) =>
          WrittenIndices(last'.calls) = {DueIndex(in_flight.op, in_flight.live)}]_vars

\* a mutation returned whose resolver answered with an index, whose write
\* went to an index other than the one the live pointer names now; the
\* pointer moved between the two calls (a move after the write would be
\* the last call)
C22_Witness ==
    /\ last.op \in ResolvingMutations
    /\ last.exc = NoExc
    /\ in_flight = NothingInFlight
    /\ live_index # None
    /\ \E i \in 1..Len(last.calls) :
          last.calls[i].fn = "get_current_live_index" /\ last.calls[i].status = 200
    /\ WrittenIndices(last.calls) # {}
    /\ live_index \notin WrittenIndices(last.calls)

(***************************************************************************)
(* Configuration errors and the calls made before them.                    *)
(***************************************************************************)
\* the exception of a doc-type check that failed
DocTypeMissing(exc) ==
    /\ exc.type = DataStoreSettingsImproperlyConfiguredException
    /\ exc.msg \in {"ES_DOC_TYPE", "ES_TRAINING_DATA_DOC_TYPE"}

\* C23: an operation that fails with a configuration error for a missing
\* doc-type has issued no backend call before failing; create() on a store
\* with a CRF index name and no CRF doc-type fails without having created
\* any index.
C23_DocTypeErrorBeforeAnyCall ==
    DocTypeMissing(last.exc) => Primitives(last.calls) = <<>>

(***************************************************************************)
(* Connectivity first.                                                     *)
(***************************************************************************)
\* the outcome of a call that began by connecting: the driver was asked for
\* a handle first, or _connect raised for an engine it does not implement
ConnectedFirst(outcome) ==
    \/ outcome.calls # <<>> /\ outcome.calls[1].fn = "connect"
    \/ outcome.exc.type = EngineNotImplementedException

\* __init__ got as far as `self._client_or_connection = None`
HoldsNoHandle ==
    /\ pc # "new"
    /\ DOMAIN connection_settings # {}
    /\ client_or_connection = None

\* C24: every public operation ensures connectivity as its first step:
\* invoked on an instance that holds no handle, it attempts to connect
\* before any other check or backend interaction.
C24_EveryOperationConnectsFirst ==
    [][(/\ HoldsNoHandle
        /\ last' # last
        /\ last'.op \notin {"__init__", "rebuild_flip"}) => ConnectedFirst(last')]_vars

\* C25: the connection is created lazily: constructing the store opens no
\* connection, and the first connection attempt of an instance happens
\* during its first public operation.
C25_ConnectionIsLazy ==
    /\ [](last.op = "__init__" =>
             /\ \A i \in 1..Len(last.calls) : last.calls[i].fn # "connect"
             /\ client_or_connection = None)
    /\ [][(/\ pc = "ready"
           /\ last.op = "__init__"
           /\ last' # last
           /\ last'.op \notin {"__init__", "rebuild_flip"}) => ConnectedFirst(last')]_vars

(***************************************************************************)
(* The rebuild.                                                            *)
(***************************************************************************)
\* the step ends a repopulate: the last of its calls, or the first when it
\* ends before any
RepopulateEnds ==
    /\ in_flight' = NothingInFlight
    /\ last' # last
    /\ last'.op = "repopulate"
\* the calls include the drop of the index, answered by the cluster
Dropped(calls) ==
    \E i \in 1..Len(calls) : calls[i].fn = "delete_index" /\ calls[i].status # 503
\* the repopulate went through: no exception and every row stored
WentThrough(outcome) ==
    /\ outcome.exc = NoExc
    /\ PopulateStored(outcome.calls) = SourceDocs(outcome.args.files)

\* C26: repopulate is drop, create, populate with nothing across the steps:
\* when it has gone through, the index holds exactly the records of the
\* sources; when it fails after the drop (an exception, or rows reported as
\* not stored) the index is absent or holds a part of the sources; and
\* exists(), called between its steps, answers for the state in between:
\* no index after the drop, the index after the create.
C26_RepopulateIsDropCreatePopulate ==
    [][/\ (RepopulateEnds /\ engine = ELASTICSEARCH /\ WentThrough(last')) =>
              /\ store_name' \in indices'
              /\ DocsOf(indices', docs', store_name') = SourceDocs(last'.args.files)
       /\ (RepopulateEnds /\ Dropped(last'.calls) /\ ~WentThrough(last')) =>
              \/ store_name' \notin indices'
              \/ /\ DocsOf(indices', docs', store_name') \subseteq
                         SourceDocs(last'.args.files)
                 /\ DocsOf(indices', docs', store_name') # SourceDocs(last'.args.files)
       /\ (/\ in_flight.op = "repopulate"
           /\ in_flight' = in_flight
           /\ store_name # ALL_INDICES
           /\ last' # last
           /\ last'.op = "exists") =>
              last'.result = (in_flight.step = "created")]_vars

\* a reader found no index between the drop and the create of a rebuild of
\* an index that existed when the rebuild began
C26_Witness ==
    /\ in_flight.op = "repopulate"
    /\ in_flight.step = "deleted"
    /\ \E i \in 1..Len(in_flight.calls) :
          in_flight.calls[i].fn = "delete_index" /\ in_flight.calls[i].status = 200
    /\ last.op = "exists"
    /\ last.result = FALSE

\* a rebuild of an index that held other records went through
C26_Rebuilt ==
    /\ last.op = "repopulate"
    /\ in_flight = NothingInFlight
    /\ WentThrough(last)
    /\ \E i \in 1..Len(last.calls) :
          last.calls[i].fn = "delete_index" /\ last.calls[i].status = 200
    /\ DocsOf(indices, docs, store_name) = SourceDocs(last.args.files)

(***************************************************************************)
(* The CRF settings and the rest of the store.                             *)
(***************************************************************************)
\* the exception of a CRF operation on a store that lacks a CRF setting
CrfNotConfigured(exc) ==
    \/ exc.type = IndexNotFoundException
    \/ /\ exc.type = DataStoreSettingsImproperlyConfiguredException
       /\ exc.msg = "ES_TRAINING_DATA_DOC_TYPE"

\* two runs of a body come to the same: exception, calls, result, cluster
SameStep(a, b) ==
    /\ a.exc = b.exc
    /\ a.calls = b.calls
    /\ a.indices = b.indices
    /\ a.docs = b.docs
    /\ a.crf_docs = b.crf_docs
    /\ a.exc = NoExc => a.result = b.result

\* every query and mutation of the dictionary comes to the same in the
\* state before and in the state after the step
DictionaryOperationsUnaffected ==
    /\ \A ok \in BOOLEAN :
          (EnsureConnected(ok))' = EnsureConnected(ok)
    /\ \A e \in Entities :
          /\ SameStep(GetEntityDictionaryBody(store_name, e, NoKwargs)',
                      GetEntityDictionaryBody(store_name, e, NoKwargs))
          /\ SameStep(GetEntityUniqueValuesBody(store_name, e, NoKwargs)',
                      GetEntityUniqueValuesBody(store_name, e, NoKwargs))
          /\ SameStep(GetEntitySupportedLanguagesBody(store_name, e, NoKwargs)',
                      GetEntitySupportedLanguagesBody(store_name, e, NoKwargs))
          /\ SameStep(DeleteEntityBody(store_name, e)', DeleteEntityBody(store_name, e))
          /\ \A t \in Texts :
                SameStep(GetSimilarDictionaryBody(store_name, e, t, None, NoKwargs)',
                         GetSimilarDictionaryBody(store_name, e, t, None, NoKwargs))
          /\ \A vs \in ValuesArgs :
                /\ SameStep(GetEntityDataBody(store_name, e, vs, NoKwargs)',
                            GetEntityDataBody(store_name, e, vs, NoKwargs))
                /\ SameStep(DeleteEntityDataByValuesBody(store_name, e, vs)',
                            DeleteEntityDataByValuesBody(store_name, e, vs))
          /\ \A r \in ValueVariantRecords :
                /\ SameStep(AddEntityDataBody(store_name, e, {r})',
                            AddEntityDataBody(store_name, e, {r}))
                /\ SameStep(UpdateEntityDataBody(store_name, e,
                                [value : {r.value}, variants : {r.variants}],
                                r.language_script)',
                            UpdateEntityDataBody(store_name, e,
                                [value : {r.value}, variants : {r.variants}],
                                r.language_script))

\* C27 (amended): a CRF operation that fails for lack of CRF configuration
\* leaves the configuration, the indices and the documents unchanged, and
\* the handle unchanged on an instance that held one (an instance without a
\* handle has connected first and keeps the handle it got); the queries and
\* mutations of the dictionary come to the same on the store without the
\* CRF settings as on the store with them.
C27_CrfFailureKeepsTheStore ==
    [][/\ (last' # last /\ last'.op \in CrfOps /\ CrfNotConfigured(last'.exc)) =>
              /\ UNCHANGED <<CHATBOT_NER_DATASTORE, engine, connection_settings,
                             store_name>>
              /\ UNCHANGED cluster_vars
              /\ client_or_connection # None => UNCHANGED <<pc, client_or_connection>>
              /\ client_or_connection = None =>
                    /\ last'.calls = <<Call("connect", None, 200)>>
                    /\ client_or_connection' # None
       /\ (last' # last /\ last'.op = "restart_without_crf") =>
              DictionaryOperationsUnaffected]_vars

\* C27 (as claimed): a CRF operation that fails for lack of CRF
\* configuration leaves the store unchanged (configuration, handle, indices
\* and documents), also on an instance that held no handle, and the queries
\* and mutations of the dictionary come to the same on the store without
\* the CRF settings as on the store with them.
C27_CrfConfigurationIsApart ==
    [][/\ (last' # last /\ last'.op \in CrfOps /\ CrfNotConfigured(last'.exc)) =>
              /\ UNCHANGED <<CHATBOT_NER_DATASTORE, pc, engine, connection_settings,
                             store_name, client_or_connection>>
              /\ UNCHANGED cluster_vars
       /\ (last' # last /\ last'.op = "restart_without_crf") =>
              DictionaryOperationsUnaffected]_vars

\* a CRF operation failed for lack of a CRF setting on a store that holds
\* dictionary documents
C27_Witness ==
    /\ last.op \in CrfOps
    /\ CrfNotConfigured(last.exc)
    /\ client_or_connection # None
    /\ \E i \in indices \cap DOMAIN docs : docs[i] # {}

\* C28: the configuration is immutable after construction: no public
\* operation changes the engine, the settings or the store name derived
\* from them.
C28_ConfigurationIsImmutable ==
    [][(pc = "ready" /\ last'.op \notin {"__init__", "restart_without_crf"}) =>
          /\ CHATBOT_NER_DATASTORE' = CHATBOT_NER_DATASTORE
          /\ engine' = engine
          /\ connection_settings' = connection_settings
          /\ store_name' = store_name
          /\ store_name' = DictGet(connection_settings', ELASTICSEARCH_INDEX_NAME,
                                   ALL_INDICES)]_vars

\* a mutation returned on a store that also took CRF data, and the
\* instance holds the settings of the environment
C28_Witness ==
    /\ pc = "ready"
    /\ last.op = "add_entity_data"
    /\ last.exc = NoExc
    /\ crf_docs # {}
    /\ connection_settings = CHATBOT_NER_DATASTORE.engines[engine]
    /\ store_name = DictGet(connection_settings, ELASTICSEARCH_INDEX_NAME, ALL_INDICES)

(***************************************************************************)
(* Properties of the HTTP server process (SpecServer, SpecServerLive).     *)
(***************************************************************************)
\* a step of a signal handler: a callback joins the queue of the loop
SignalHandled == Len(io_loop'.callbacks) > Len(io_loop.callbacks)
\* a step that stops the loop
LoopStops == io_loop.state = "running" /\ io_loop'.state = "stopped"

\* C29: the signal handler only queues shutdown on the loop and stops nothing;
\* the loop is stopped only by a due poll whose deadline has come, after the
\* HTTP server was told to stop, and no earlier than WAIT_SECONDS_BEFORE_SHUTDOWN
\* after the shutdown that stopped the HTTP server
C29_GracefulShutdownOrdering ==
    /\ [](io_loop.state = "stopped" =>
            /\ http_server.state = "stopped"
            /\ io_loop.stopped_at >= http_server.stopped_at + WAIT_SECONDS_BEFORE_SHUTDOWN)
    /\ [][SignalHandled =>
            /\ http_server' = http_server
            /\ io_loop'.state = io_loop.state
            /\ io_loop'.timeouts = io_loop.timeouts
            /\ io_loop'.callbacks[Len(io_loop'.callbacks)].fn = "shutdown"]_vars
    /\ [][LoopStops =>
            /\ http_server.state = "stopped"
            /\ io_loop'.stopped_at = now
            /\ \E i \in DOMAIN io_loop.timeouts :
                  /\ io_loop.timeouts[i].when <= now
                  /\ io_loop.timeouts[i].deadline <= now
                  /\ io_loop.timeouts[i].deadline >=
                         http_server.stopped_at + WAIT_SECONDS_BEFORE_SHUTDOWN]_vars
\* two signals were handled and the loop stopped exactly when the wait of the
\* first shutdown ended
C29_Witness ==
    /\ io_loop.state = "stopped"
    /\ http_server.state = "stopped"
    /\ io_loop.stopped_at = http_server.stopped_at + WAIT_SECONDS_BEFORE_SHUTDOWN
    /\ Len(io_loop.timeouts) = 1

\* C30: once a signal handler has queued shutdown, the loop is eventually
\* stopped, whatever further signals arrive
C30_ShutdownCompletes ==
    (io_loop.state = "running" /\ io_loop.callbacks # <<>>) ~> io_loop.state = "stopped"
\* two signals are pending at once: one shutdown is queued, the poll of another waits
C30_Witness ==
    /\ io_loop.state = "running"
    /\ io_loop.callbacks # <<>>
    /\ io_loop.timeouts # <<>>
\* the loop was stopped after two signals
C30_Stopped ==
    /\ io_loop.state = "stopped"
    /\ Len(io_loop.callbacks) + Len(io_loop.timeouts) = MaxSignals - 1

(***************************************************************************)
(* Properties of the logical store name (SpecStoreName).                   *)
(***************************************************************************)
\* the operations that address the store by its logical name
StoreNameOps ==
    {"create", "exists", "delete", "get_entity_dictionary", "get_similar_dictionary",
     "get_entity_supported_languages", "get_entity_unique_values", "get_entity_data"}
\* the calls of an outcome that address the store: not the driver's connect,
\* not the creation of the CRF index, which has a name of its own
StoreCalls(calls) ==
    {i \in DOMAIN calls : calls[i].fn \notin {"connect", "create_crf_index"}}
NoIndexNameConfigured == ELASTICSEARCH_INDEX_NAME \notin DOMAIN connection_settings

\* C31: the store name is the configured index name, or "_all" when none is
\* configured; create, exists, the queries and delete address the cluster by
\* it, and with no index name configured a delete() that succeeds leaves the
\* cluster without any index
C31_StoreNameDefaultsToAll ==
    /\ []((pc = "ready" /\ engine = ELASTICSEARCH) =>
            store_name = IF NoIndexNameConfigured THEN ALL_INDICES
                         ELSE connection_settings[ELASTICSEARCH_INDEX_NAME])
    /\ [][(last' # last /\ last'.op \in StoreNameOps /\ engine = ELASTICSEARCH) =>
            /\ \A i \in StoreCalls(last'.calls) : last'.calls[i].index = store_name'
            /\ last'.exc = NoExc => StoreCalls(last'.calls) # {}]_vars
    /\ [][(/\ last' # last
           /\ last'.op = "delete"
           /\ last'.exc = NoExc
           /\ engine = ELASTICSEARCH
           /\ NoIndexNameConfigured) =>
            /\ \E i \in DOMAIN last'.calls :
                  last'.calls[i] = Call("delete_index", ALL_INDICES, 200)
            /\ indices' = {}
            /\ \A i \in DOMAIN docs' : docs'[i] = {}
            /\ crf_docs' = {}]_vars
\* delete() ran with no index name configured and the cluster holds no index
C31_Witness ==
    /\ pc = "ready"
    /\ NoIndexNameConfigured
    /\ store_name = ALL_INDICES
    /\ last.op = "delete"
    /\ last.exc = NoExc
    /\ last.calls = <<Call("delete_index", ALL_INDICES, 200)>>
    /\ indices = {}
\* a query ran with no index name configured and read the documents of an
\* index through the wildcard
C31_QueriedAll ==
    /\ NoIndexNameConfigured
    /\ last.op = "get_entity_dictionary"
    /\ last.exc = NoExc
    /\ \E i \in StoreCalls(last.calls) : last.calls[i].index = ALL_INDICES
    /\ docs[EntitiesIndex] # {}
\* delete() takes one index from the cluster at most: not so with the wildcard
C31_DeleteDropsOneIndexAtMost ==
    [][(last' # last /\ last'.op = "delete") => Cardinality(indices \ indices') <= 1]_vars

(***************************************************************************)
(* Properties of the NER endpoint without a message (SpecNer).             *)
(***************************************************************************)
\* the request ran the detection
DetectionInvoked == \E i \in DOMAIN last.calls : last.calls[i].fn = "run_ner"

\* C32: a GET with a missing or empty message is answered with 400 and runs
\* no detection, whatever its `entities` argument; a GET that runs the
\* detection has a non-empty message
C32_NoMessageIsBadRequest ==
    last.op = "NerHandler.get" =>
        /\ last.args.message = "" =>
              /\ last.exc = Exc("HTTPError", "400")
              /\ last.result = Response(400, None)
              /\ last.calls = <<>>
        /\ DetectionInvoked => last.args.message # ""
        /\ \A i \in DOMAIN AwaitingRequests : AwaitingRequests[i].args.message # ""
\* a request without a message that names entities was refused, while
\* another request waited for run_ner
C32_Witness ==
    /\ last.op = "NerHandler.get"
    /\ AwaitingRequests # <<>>
    /\ last.args.message = ""
    /\ JsonIsList(last.args.entities)
    /\ last.result.status = 400
    /\ ~DetectionInvoked
\* a request with a message ran the detection
C32_Detected ==
    /\ last.op = "NerHandler.get"
    /\ last.args.message # ""
    /\ DetectionInvoked

====
